---- MODULE Spec2Model ----
(***************************************************************************)
(* aws-relay: a transparent SQS relay.  The lifecycle store                *)
(* (package store), the intercepting reverse proxy (package proxy) and     *)
(* the store's read surface, as state machines.                            *)
(*                                                                         *)
(* Go pointers are modelled explicitly: every *Message lives in `heap`     *)
(* and the store's maps and slices hold heap addresses, so that two        *)
(* containers holding the same pointer see each other's writes.            *)
(***************************************************************************)
EXTENDS Integers, Sequences, FiniteSets, TLC

(***************************************************************************)
(* Bounds of the model.                                                    *)
(***************************************************************************)
MaxEvents == 3      \* generateID calls (recorded events) in one behaviour
MaxCalls == 2       \* Record* calls in one behaviour of the callers that wait

(***************************************************************************)
(* Input domains of the store operations.                                  *)
(***************************************************************************)
QueueURLs == {"http://x/q1", "http://x/q2"}
MessageIDs == {"m1", "m2"}
ReceiptHandles == {"rh1", "rh2"}
\* what the store API is called with: a send carries the body and the
\* attributes of the request, a receive those of the response
SendBody == "hi"
ReceiveBody == "yo"
NoAttrs == << >>
SomeAttrs == [n \in {"k"} |-> "v"]

\* MessageAction constants
ActionSend == "send"
ActionReceive == "receive"
ActionDelete == "delete"

\* the nil *time.Time
NilTime == -1

\* what a store operation without a result leaves in ret
NoRet == [op |-> "none"]

VARIABLES
    messages,   \* Store.messages : messageId -> *Message
    queues,     \* Store.queues   : queueName -> set of messageIds
    history,    \* Store.history  : []*Message, chronological
    receipts,   \* Store.receipts : receiptHandle -> messageId
    heap,       \* the Message objects, by address (1..Len(heap))
    idCounter,  \* package variable idCounter
    now,        \* the wall clock read by time.Now(); the behaviours explored
                \* lie within one instant of it
    ret,        \* the value the last store call returned to its caller
    calls,      \* the Record* calls made since the last Clear, in order
    conn,       \* the exchanges of the proxy: per inbound request, where
                \* its handler stands and the messages it holds
    mu,         \* Store.mu, the sync.RWMutex: who holds it, in which mode
    inside,     \* per goroutine, the store method it is in and how far
    idMu        \* package variable idMu, the sync.Mutex of generateID: its
                \* holder

storeVars == <<messages, queues, history, receipts, heap, idCounter>>
lockVars == <<mu, inside, idMu>>
vars ==
    <<messages, queues, history, receipts, heap, idCounter, now, ret, calls,
      conn, mu, inside, idMu>>

(***************************************************************************)
(* Helpers on Go maps (functions with a finite domain).                    *)
(***************************************************************************)
EmptyMap == << >>

MapPut(f, k, v) == [x \in (DOMAIN f) \cup {k} |-> IF x = k THEN v ELSE f[x]]

Last(seq) == seq[Len(seq)]

(***************************************************************************)
(* Go strings are TLA+ strings.  The string functions the program uses are *)
(* given by what they return on the strings of the model.                  *)
(***************************************************************************)
\* strings.Split(str, "/")
Split(str) ==
    CASE str = "http://x/q1" -> <<"http:", "", "x", "q1">>
      [] str = "http://x/q2" -> <<"http:", "", "x", "q2">>
      [] OTHER -> <<str>>

\* a form parser that does not decode the value
QueryUnescape_Not(str) == str

\* url.QueryUnescape: "%XX" and "+" decoded, other text as it is
QueryUnescape(str) ==
    CASE str = "http%3A%2F%2Fx%2Fq1" -> "http://x/q1"
      [] str = "http%3A%2F%2Fx%2Fq2" -> "http://x/q2"
      [] str = "hi+there" -> "hi there"
      [] OTHER -> str

\* strings.Contains(contentType, "json")
ContainsJSON(contentType) ==
    contentType \in {"application/x-amz-json-1.0", "application/json"}

\* extractQueueName: the last "/"-separated part of the URL
extractQueueName(queueURL) ==
    IF Len(Split(queueURL)) > 0 THEN Last(Split(queueURL)) ELSE queueURL

(***************************************************************************)
(* generateID: the formatted time, "-", and the counter cast to a rune.    *)
(* string(rune(n)) is the replacement character for n outside the valid    *)
(* code points.                                                            *)
(***************************************************************************)
MaxRune == 1114111
SurrogateMin == 55296
SurrogateMax == 57343
RuneError == 65533

RuneString(n) ==
    IF n < 0 \/ n > MaxRune \/ (n >= SurrogateMin /\ n <= SurrogateMax)
    THEN RuneError ELSE n

generateID(counter, t) == [ts |-> t, r |-> RuneString(counter)]

(***************************************************************************)
(* The store as a value: the operations below are functions from a store   *)
(* value (fields messages, queues, history, receipts, heap, idCounter) to  *)
(* the store value after the call.                                         *)
(***************************************************************************)
TheStore ==
    [messages |-> messages, queues |-> queues, history |-> history,
     receipts |-> receipts, heap |-> heap, idCounter |-> idCounter]

\* store.New
New ==
    [messages |-> EmptyMap, queues |-> EmptyMap, history |-> << >>,
     receipts |-> EmptyMap]

\* a membership that a later message of the queue replaces
AddToQueue_Replace(qs, queueName, messageID) ==
    MapPut(qs, queueName, {messageID})

\* s.queues[queueName][messageID] = true, creating the set when it is nil
AddToQueue(qs, queueName, messageID) ==
    MapPut(qs, queueName,
           (IF queueName \in DOMAIN qs THEN qs[queueName] ELSE {})
               \cup {messageID})

\* a RecordSend that puts its event at the front of the history
RecordSend_Prepends(s, queueURL, queueName, messageID, body, attributes, t) ==
    LET p == Len(s.heap) + 1
        msg == [ID |-> generateID(s.idCounter + 1, t),
                MessageID |-> messageID,
                ReceiptHandle |-> "",
                QueueURL |-> queueURL,
                QueueName |-> queueName,
                Body |-> body,
                Attributes |-> attributes,
                Action |-> ActionSend,
                Timestamp |-> t,
                Deleted |-> FALSE,
                DeletedAt |-> NilTime]
    IN  [messages |-> MapPut(s.messages, messageID, p),
         queues |-> AddToQueue(s.queues, queueName, messageID),
         history |-> <<p>> \o s.history,
         receipts |-> s.receipts,
         heap |-> Append(s.heap, msg),
         idCounter |-> s.idCounter + 1]

RecordSend(s, queueURL, queueName, messageID, body, attributes, t) ==
    LET p == Len(s.heap) + 1
        msg == [ID |-> generateID(s.idCounter + 1, t),
                MessageID |-> messageID,
                ReceiptHandle |-> "",
                QueueURL |-> queueURL,
                QueueName |-> queueName,
                Body |-> body,
                Attributes |-> attributes,
                Action |-> ActionSend,
                Timestamp |-> t,
                Deleted |-> FALSE,
                DeletedAt |-> NilTime]
    IN  [messages |-> MapPut(s.messages, messageID, p),
         queues |-> AddToQueue(s.queues, queueName, messageID),
         history |-> Append(s.history, p),
         receipts |-> s.receipts,
         heap |-> Append(s.heap, msg),
         idCounter |-> s.idCounter + 1]

\* a RecordReceive that keeps the message a handle already resolves to
RecordReceive_FirstWins(s, queueURL, queueName, messageID, receiptHandle, body, attributes, t) ==
    LET pe == Len(s.heap) + 1
        pm == Len(s.heap) + 2
        event == [ID |-> generateID(s.idCounter + 1, t),
                  MessageID |-> messageID,
                  ReceiptHandle |-> receiptHandle,
                  QueueURL |-> queueURL,
                  QueueName |-> queueName,
                  Body |-> body,
                  Attributes |-> attributes,
                  Action |-> ActionReceive,
                  Timestamp |-> t,
                  Deleted |-> FALSE,
                  DeletedAt |-> NilTime]
        exists == messageID \in DOMAIN s.messages
    IN  [messages |-> IF exists THEN s.messages
                      ELSE MapPut(s.messages, messageID, pm),
         queues |-> IF exists THEN s.queues
                    ELSE AddToQueue(s.queues, queueName, messageID),
         history |-> Append(s.history, pe),
         receipts |-> IF receiptHandle \in DOMAIN s.receipts THEN s.receipts
                      ELSE MapPut(s.receipts, receiptHandle, messageID),
         heap |-> IF exists THEN Append(s.heap, event)
                  ELSE s.heap \o <<event, event>>,
         idCounter |-> s.idCounter + 1]

\* a record_receive that writes the handle into an entry that exists
RecordReceive_UpdatesEntry(s, queueURL, queueName, messageID, receiptHandle, body, attributes, t) ==
    LET pe == Len(s.heap) + 1
        pm == Len(s.heap) + 2
        event == [ID |-> generateID(s.idCounter + 1, t),
                  MessageID |-> messageID,
                  ReceiptHandle |-> receiptHandle,
                  QueueURL |-> queueURL,
                  QueueName |-> queueName,
                  Body |-> body,
                  Attributes |-> attributes,
                  Action |-> ActionReceive,
                  Timestamp |-> t,
                  Deleted |-> FALSE,
                  DeletedAt |-> NilTime]
        exists == messageID \in DOMAIN s.messages
    IN  [messages |-> IF exists THEN s.messages
                      ELSE MapPut(s.messages, messageID, pm),
         queues |-> IF exists THEN s.queues
                    ELSE AddToQueue(s.queues, queueName, messageID),
         history |-> Append(s.history, pe),
         receipts |-> MapPut(s.receipts, receiptHandle, messageID),
         heap |-> IF exists
                  THEN Append([s.heap EXCEPT ![s.messages[messageID]].ReceiptHandle
                                                  = receiptHandle], event)
                  ELSE s.heap \o <<event, event>>,
         idCounter |-> s.idCounter + 1]

RecordReceive(s, queueURL, queueName, messageID, receiptHandle, body, attributes, t) ==
    LET pe == Len(s.heap) + 1
        pm == Len(s.heap) + 2
        event == [ID |-> generateID(s.idCounter + 1, t),
                  MessageID |-> messageID,
                  ReceiptHandle |-> receiptHandle,
                  QueueURL |-> queueURL,
                  QueueName |-> queueName,
                  Body |-> body,
                  Attributes |-> attributes,
                  Action |-> ActionReceive,
                  Timestamp |-> t,
                  Deleted |-> FALSE,
                  DeletedAt |-> NilTime]
        exists == messageID \in DOMAIN s.messages
    IN  [messages |-> IF exists THEN s.messages
                      ELSE MapPut(s.messages, messageID, pm),
         queues |-> IF exists THEN s.queues
                    ELSE AddToQueue(s.queues, queueName, messageID),
         history |-> Append(s.history, pe),
         receipts |-> MapPut(s.receipts, receiptHandle, messageID),
         heap |-> IF exists THEN Append(s.heap, event)
                  ELSE s.heap \o <<event, event>>,
         idCounter |-> s.idCounter + 1]

\* msg.Deleted = true; msg.DeletedAt = &now, through the pointer pm
MarkDeleted_FlagOnly(h, pm, t) == [h EXCEPT ![pm].Deleted = TRUE]

MarkDeleted(h, pm, t) ==
    [h EXCEPT ![pm].Deleted = TRUE, ![pm].DeletedAt = t]

\* the two lookups of RecordDelete: the receipt index, then the table
Resolved(s, receiptHandle) ==
    /\ receiptHandle \in DOMAIN s.receipts
    /\ s.receipts[receiptHandle] \in DOMAIN s.messages

\* the delete event, with MessageID and Body filled in when the lookups hit
DeleteEvent(s, queueURL, queueName, receiptHandle, t) ==
    [ID |-> generateID(s.idCounter + 1, t),
     MessageID |-> IF receiptHandle \in DOMAIN s.receipts
                   THEN s.receipts[receiptHandle] ELSE "",
     ReceiptHandle |-> receiptHandle,
     QueueURL |-> queueURL,
     QueueName |-> queueName,
     Body |-> IF Resolved(s, receiptHandle)
              THEN s.heap[s.messages[s.receipts[receiptHandle]]].Body ELSE "",
     Attributes |-> NoAttrs,
     Action |-> ActionDelete,
     Timestamp |-> t,
     Deleted |-> FALSE,
     DeletedAt |-> NilTime]

\* a RecordDelete that appends to history only inside the `if ok` block
RecordDelete_HitOnly(s, queueURL, queueName, receiptHandle, t) ==
    IF receiptHandle \in DOMAIN s.receipts
    THEN [s EXCEPT
            !.history = Append(s.history, Len(s.heap) + 1),
            !.heap = Append(
                IF Resolved(s, receiptHandle)
                THEN MarkDeleted(s.heap,
                                 s.messages[s.receipts[receiptHandle]], t)
                ELSE s.heap,
                DeleteEvent(s, queueURL, queueName, receiptHandle, t)),
            !.idCounter = s.idCounter + 1]
    ELSE [s EXCEPT !.idCounter = s.idCounter + 1]

RecordDelete(s, queueURL, queueName, receiptHandle, t) ==
    [messages |-> s.messages,
     queues |-> s.queues,
     history |-> Append(s.history, Len(s.heap) + 1),
     receipts |-> s.receipts,
     heap |-> Append(
         IF Resolved(s, receiptHandle)
         THEN MarkDeleted(s.heap, s.messages[s.receipts[receiptHandle]], t)
         ELSE s.heap,
         DeleteEvent(s, queueURL, queueName, receiptHandle, t)),
     idCounter |-> s.idCounter + 1]

\* a Clear that leaves the receipt index as it is
Clear_KeepsReceipts(s) ==
    [messages |-> EmptyMap, queues |-> EmptyMap, history |-> << >>,
     receipts |-> s.receipts, heap |-> << >>, idCounter |-> s.idCounter]

\* Clear: four fresh containers; the old Message objects become garbage
Clear(s) ==
    [messages |-> EmptyMap, queues |-> EmptyMap, history |-> << >>,
     receipts |-> EmptyMap, heap |-> << >>, idCounter |-> s.idCounter]

(***************************************************************************)
(* The queries.  GetMessages ranges over a Go map, so its result is in no  *)
(* particular order: it is modelled as the set of the returned pointers.   *)
(***************************************************************************)
GetMessages(s, queueName, includeDeleted) ==
    { s.messages[id] : id \in
        { i \in DOMAIN s.messages :
            /\ ~(queueName # "" /\ s.heap[s.messages[i]].QueueName # queueName)
            /\ ~(~includeDeleted /\ s.heap[s.messages[i]].Deleted) } }

\* a GetHistory that indexes from limit instead of len(s.history)
GetHistory_Oldest(s, limit) ==
    LET n == IF limit <= 0 \/ limit > Len(s.history)
             THEN Len(s.history) ELSE limit
    IN  [i \in 1..n |-> s.history[n + 1 - i]]

GetHistory(s, limit) ==
    LET n == IF limit <= 0 \/ limit > Len(s.history)
             THEN Len(s.history) ELSE limit
    IN  [i \in 1..n |-> s.history[Len(s.history) + 1 - i]]

\* a count that does not look at the event's queue
CountEvents_AnyQueue(s, q, action) ==
    Cardinality({ i \in 1..Len(s.history) :
                    s.heap[s.history[i]].Action = action })

\* the number of history events of queue q with the given action
CountEvents(s, q, action) ==
    Cardinality({ i \in 1..Len(s.history) :
                    /\ s.heap[s.history[i]].QueueName = q
                    /\ s.heap[s.history[i]].Action = action })

\* the index of the first history event of queue q (it sets QueueURL)
FirstEvent(s, q) ==
    CHOOSE i \in 1..Len(s.history) :
        /\ s.heap[s.history[i]].QueueName = q
        /\ \A j \in 1..(i - 1) : s.heap[s.history[j]].QueueName # q

\* a pending loop without the !msg.Deleted test
Pending_CountsDeleted(s, q) ==
    IF q \in DOMAIN s.queues
    THEN Cardinality({ msgID \in s.queues[q] : msgID \in DOMAIN s.messages })
    ELSE 0

\* the pending loop of GetQueueStats, for one queue
Pending(s, q) ==
    IF q \in DOMAIN s.queues
    THEN Cardinality({ msgID \in s.queues[q] :
                         /\ msgID \in DOMAIN s.messages
                         /\ ~s.heap[s.messages[msgID]].Deleted })
    ELSE 0

\* the result, as the map stats the function builds (queueName -> QueueStats)
GetQueueStats(s) ==
    [q \in { s.heap[s.history[i]].QueueName : i \in 1..Len(s.history) } |->
        [QueueName |-> q,
         QueueURL |-> s.heap[s.history[FirstEvent(s, q)]].QueueURL,
         TotalSent |-> CountEvents(s, q, ActionSend),
         TotalReceived |-> CountEvents(s, q, ActionReceive),
         TotalDeleted |-> CountEvents(s, q, ActionDelete),
         Pending |-> Pending(s, q)]]

(***************************************************************************)
(* Package proxy: the texts it parses.                                     *)
(*                                                                         *)
(* A body is the text it parses to: a JSON object (field -> value), a form *)
(* (the key=value pairs between the "&", a key being prefix.index.name or  *)
(* a bare name), XML (its elements, in document order) or the empty text.  *)
(* encoding/json fails on a text that is no JSON object, and the regular   *)
(* expressions of the form and XML parsers match nothing in a text of      *)
(* another kind.                                                           *)
(***************************************************************************)
JStr(str) == [t |-> "string", v |-> str]
JNum(n) == [t |-> "number", v |-> n]
JArr(a) == [t |-> "array", v |-> a]
JObj(o) == [t |-> "object", v |-> o]

JSONText(o) == [fmt |-> "json", obj |-> o]
FormText(pairs) == [fmt |-> "form", pairs |-> pairs]
XMLText(nodes) == [fmt |-> "xml", nodes |-> nodes]
EmptyText == [fmt |-> "empty"]

\* a form pair name=val, and an indexed one pre.idx.name=val
Pair(name, val) == [pre |-> "", idx |-> "", name |-> name, val |-> val]
IndexedPair(pre, idx, name, val) ==
    [pre |-> pre, idx |-> idx, name |-> name, val |-> val]

\* an XML element with text, and one with child elements
Leaf(tag, text) == [tag |-> tag, text |-> text, kids |-> << >>]
Element(tag, kids) == [tag |-> tag, text |-> "", kids |-> kids]

\* json.Unmarshal([]byte(body), &data): the object, or the error (no fields)
Unmarshal(body) == IF body.fmt = "json" THEN body.obj ELSE EmptyMap

FormPairs(body) == IF body.fmt = "form" THEN body.pairs ELSE << >>

XMLNodes(body) == IF body.fmt = "xml" THEN body.nodes ELSE << >>

\* v.(string), v.([]interface{}), v.(map[string]interface{}) on data[field]
HasType(data, field, t) == field \in DOMAIN data /\ data[field].t = t

\* the elements without child elements, in document order
RECURSIVE Leaves(_)
Leaves(nodes) ==
    IF nodes = << >> THEN << >>
    ELSE (IF Head(nodes).kids = << >> THEN <<Head(nodes)>>
          ELSE Leaves(Head(nodes).kids)) \o Leaves(Tail(nodes))

\* the outermost elements with the given tag, in document order
RECURSIVE Elements(_, _)
Elements(nodes, tag) ==
    IF nodes = << >> THEN << >>
    ELSE (IF Head(nodes).tag = tag THEN <<Head(nodes)>>
          ELSE Elements(Head(nodes).kids, tag)) \o Elements(Tail(nodes), tag)

\* the matches of <tag>([^<]+)</tag>
TagMatches(nodes, tag) ==
    SelectSeq(Leaves(nodes), LAMBDA n : n.tag = tag /\ n.text # "")

\* the pairs matching  pre\.(\d+)\.name=([^&]+)
IndexedMatches(pairs, pre, name) ==
    SelectSeq(pairs, LAMBDA kv : kv.pre = pre /\ kv.idx # "" /\ kv.name = name
                                   /\ kv.val # "")

\* the pairs matching  field=([^&]+): the expression is not anchored, so a
\* key that ends with the field name matches too
FieldMatches(pairs, field) ==
    SelectSeq(pairs, LAMBDA kv : kv.name = field /\ kv.val # "")

parseActionFromTarget(target) ==
    CASE target = "AmazonSQS.SendMessage" -> "SendMessage"
      [] target = "AmazonSQS.SendMessageBatch" -> "SendMessageBatch"
      [] target = "AmazonSQS.ReceiveMessage" -> "ReceiveMessage"
      [] target = "AmazonSQS.DeleteMessage" -> "DeleteMessage"
      [] target = "AmazonSQS.DeleteMessageBatch" -> "DeleteMessageBatch"
      [] target = "AmazonSQS.ListQueues" -> "ListQueues"
      [] OTHER -> ""

parseActionFromForm(body) ==
    IF FieldMatches(FormPairs(body), "Action") # << >>
    THEN FieldMatches(FormPairs(body), "Action")[1].val
    ELSE "Unknown"

parseFormField(body, field) ==
    IF FieldMatches(FormPairs(body), field) # << >>
    THEN QueryUnescape(FieldMatches(FormPairs(body), field)[1].val)
    ELSE ""

parseJSONField(body, field) ==
    IF HasType(Unmarshal(body), field, "string")
    THEN Unmarshal(body)[field].v
    ELSE ""

extractXMLTag(nodes, tag) ==
    IF TagMatches(nodes, tag) # << >> THEN TagMatches(nodes, tag)[1].text
    ELSE ""

extractAllXMLTags(nodes, tag) ==
    [i \in 1..Len(TagMatches(nodes, tag)) |-> TagMatches(nodes, tag)[i].text]

\* the loop over a JSON attribute map: name -> StringValue, for the entries
\* that are objects with a string StringValue
JSONAttributes(data) ==
    IF HasType(data, "MessageAttributes", "object")
    THEN LET msgAttrs == data["MessageAttributes"].v
             good == { name \in DOMAIN msgAttrs :
                         /\ msgAttrs[name].t = "object"
                         /\ HasType(msgAttrs[name].v, "StringValue", "string") }
         IN  [name \in good |-> msgAttrs[name].v["StringValue"].v]
    ELSE EmptyMap

\* index -> decoded value of the last pair with that index
LastByIndex(matches) ==
    [idx \in { matches[i].idx : i \in 1..Len(matches) } |->
        LET last == CHOOSE i \in 1..Len(matches) :
                        /\ matches[i].idx = idx
                        /\ \A j \in (i + 1)..Len(matches) : matches[j].idx # idx
        IN  QueryUnescape(matches[last].val)]

extractMessageAttributes(body, isJSON) ==
    IF isJSON THEN JSONAttributes(Unmarshal(body))
    ELSE LET names == LastByIndex(IndexedMatches(FormPairs(body),
                                                 "MessageAttribute", "Name"))
             values == LastByIndex(IndexedMatches(FormPairs(body),
                                                  "MessageAttribute",
                                                  "Value.StringValue"))
             both == DOMAIN names \cap DOMAIN values
         IN  [name \in { names[idx] : idx \in both } |->
                values[CHOOSE idx \in both : names[idx] = name]]

\* a receivedMessage
ReceivedMessage(id, rh, body, attrs) ==
    [MessageID |-> id, ReceiptHandle |-> rh, Body |-> body,
     Attributes |-> attrs]

StringOr(data, field) ==
    IF HasType(data, field, "string") THEN data[field].v ELSE ""

parseReceiveMessageResponseJSON(body) ==
    IF ~HasType(Unmarshal(body), "Messages", "array") THEN << >>
    ELSE LET msgList == Unmarshal(body)["Messages"].v
             objects == SelectSeq(msgList, LAMBDA m : m.t = "object")
         IN  [i \in 1..Len(objects) |->
                ReceivedMessage(StringOr(objects[i].v, "MessageId"),
                                StringOr(objects[i].v, "ReceiptHandle"),
                                StringOr(objects[i].v, "Body"),
                                JSONAttributes(objects[i].v))]

\* the attributes of one <Message>: Name -> StringValue of each
\* <MessageAttribute> with a name, a later one replacing an earlier one
XMLAttributes(kids) ==
    LET blocks == Elements(kids, "MessageAttribute")
        named == SelectSeq(blocks,
                           LAMBDA b : extractXMLTag(b.kids, "Name") # "")
    IN  [name \in { extractXMLTag(named[i].kids, "Name") :
                      i \in 1..Len(named) } |->
            LET last == CHOOSE i \in 1..Len(named) :
                    /\ extractXMLTag(named[i].kids, "Name") = name
                    /\ \A j \in (i + 1)..Len(named) :
                         extractXMLTag(named[j].kids, "Name") # name
            IN  extractXMLTag(named[last].kids, "StringValue")]

parseReceiveMessageResponseXML(body) ==
    LET blocks == Elements(XMLNodes(body), "Message")
    IN  [i \in 1..Len(blocks) |->
            ReceivedMessage(extractXMLTag(blocks[i].kids, "MessageId"),
                            extractXMLTag(blocks[i].kids, "ReceiptHandle"),
                            extractXMLTag(blocks[i].kids, "Body"),
                            XMLAttributes(blocks[i].kids))]

(***************************************************************************)
(* The handlers of modifyResponse.  Each yields the store calls it makes,  *)
(* in order.                                                               *)
(***************************************************************************)
SendCall(queueURL, queueName, messageID, body, attrs) ==
    [op |-> ActionSend, queueURL |-> queueURL, queueName |-> queueName,
     messageID |-> messageID, receiptHandle |-> "", body |-> body,
     attributes |-> attrs]

ReceiveCall(queueURL, queueName, msg) ==
    [op |-> ActionReceive, queueURL |-> queueURL, queueName |-> queueName,
     messageID |-> msg.MessageID, receiptHandle |-> msg.ReceiptHandle,
     body |-> msg.Body, attributes |-> msg.Attributes]

DeleteCall(queueURL, queueName, receiptHandle) ==
    [op |-> ActionDelete, queueURL |-> queueURL, queueName |-> queueName,
     messageID |-> "", receiptHandle |-> receiptHandle, body |-> "",
     attributes |-> NoAttrs]

BatchBody == "[batch message]"

handleSendMessage(queueURL, queueName, reqBody, respBody, isJSON) ==
    LET msgBody == IF isJSON THEN parseJSONField(reqBody, "MessageBody")
                   ELSE parseFormField(reqBody, "MessageBody")
        messageID == IF isJSON THEN parseJSONField(respBody, "MessageId")
                     ELSE extractXMLTag(XMLNodes(respBody), "MessageId")
        attrs == extractMessageAttributes(reqBody, isJSON)
    IN  IF messageID # ""
        THEN <<SendCall(queueURL, queueName, messageID, msgBody, attrs)>>
        ELSE << >>

\* the MessageId strings of the objects in the "Successful" array
SuccessfulIDs(resp) ==
    IF ~HasType(resp, "Successful", "array") THEN << >>
    ELSE LET withID == SelectSeq(resp["Successful"].v,
                LAMBDA e : e.t = "object" /\ HasType(e.v, "MessageId", "string"))
         IN  [i \in 1..Len(withID) |-> withID[i].v["MessageId"].v]

\* a batch handler that walks the ids from the last to the first
handleSendMessageBatch_Reversed(queueURL, queueName, reqBody, respBody, isJSON) ==
    LET messageIDs == IF isJSON THEN SuccessfulIDs(Unmarshal(respBody))
                      ELSE extractAllXMLTags(XMLNodes(respBody), "MessageId")
    IN  [i \in 1..Len(messageIDs) |->
            SendCall(queueURL, queueName,
                     messageIDs[Len(messageIDs) + 1 - i], BatchBody, NoAttrs)]

handleSendMessageBatch(queueURL, queueName, reqBody, respBody, isJSON) ==
    LET messageIDs == IF isJSON THEN SuccessfulIDs(Unmarshal(respBody))
                      ELSE extractAllXMLTags(XMLNodes(respBody), "MessageId")
    IN  [i \in 1..Len(messageIDs) |->
            SendCall(queueURL, queueName, messageIDs[i], BatchBody, NoAttrs)]

handleReceiveMessage(queueURL, queueName, respBody, isJSON) ==
    LET msgs == IF isJSON THEN parseReceiveMessageResponseJSON(respBody)
                ELSE parseReceiveMessageResponseXML(respBody)
    IN  [i \in 1..Len(msgs) |-> ReceiveCall(queueURL, queueName, msgs[i])]

handleDeleteMessage(queueURL, queueName, reqBody, isJSON) ==
    LET receiptHandle == IF isJSON THEN parseJSONField(reqBody, "ReceiptHandle")
                         ELSE parseFormField(reqBody, "ReceiptHandle")
    IN  IF receiptHandle # ""
        THEN <<DeleteCall(queueURL, queueName, receiptHandle)>>
        ELSE << >>

\* the ReceiptHandle strings of the objects in the "Entries" array
EntryHandles(data) ==
    IF ~HasType(data, "Entries", "array") THEN << >>
    ELSE LET withRH == SelectSeq(data["Entries"].v,
                LAMBDA e : e.t = "object"
                           /\ HasType(e.v, "ReceiptHandle", "string"))
         IN  [i \in 1..Len(withRH) |-> withRH[i].v["ReceiptHandle"].v]

handleDeleteMessageBatch(queueURL, queueName, reqBody, isJSON) ==
    LET handles ==
            IF isJSON THEN EntryHandles(Unmarshal(reqBody))
            ELSE LET matches == IndexedMatches(FormPairs(reqBody),
                                    "DeleteMessageBatchRequestEntry",
                                    "ReceiptHandle")
                 IN  [i \in 1..Len(matches) |-> QueryUnescape(matches[i].val)]
    IN  [i \in 1..Len(handles) |-> DeleteCall(queueURL, queueName, handles[i])]

\* a switch whose default case records a delete
Dispatch_DefaultDeletes(reqBody, contentType, amzTarget, respBody) ==
    LET isJSON == ContainsJSON(contentType)
        action == IF parseActionFromTarget(amzTarget) = ""
                  THEN parseActionFromForm(reqBody)
                  ELSE parseActionFromTarget(amzTarget)
        queueURL == IF isJSON THEN parseJSONField(reqBody, "QueueUrl")
                    ELSE parseFormField(reqBody, "QueueUrl")
        queueName == extractQueueName(queueURL)
    IN  CASE action = "SendMessage" ->
               handleSendMessage(queueURL, queueName, reqBody, respBody, isJSON)
          [] action = "SendMessageBatch" ->
               handleSendMessageBatch(queueURL, queueName, reqBody, respBody,
                                      isJSON)
          [] action = "ReceiveMessage" ->
               handleReceiveMessage(queueURL, queueName, respBody, isJSON)
          [] action = "DeleteMessage" ->
               handleDeleteMessage(queueURL, queueName, reqBody, isJSON)
          [] action = "DeleteMessageBatch" ->
               handleDeleteMessageBatch(queueURL, queueName, reqBody, isJSON)
          [] OTHER -> <<DeleteCall(queueURL, queueName, "")>>

\* modifyResponse from `isJSON :=` on: the store calls of one exchange
\* a switch that records a delete only when the answer is not an error
Dispatch_DeleteOnSuccess(reqBody, contentType, amzTarget, respBody) ==
    LET isJSON == ContainsJSON(contentType)
        action == IF parseActionFromTarget(amzTarget) = ""
                  THEN parseActionFromForm(reqBody)
                  ELSE parseActionFromTarget(amzTarget)
        queueURL == IF isJSON THEN parseJSONField(reqBody, "QueueUrl")
                    ELSE parseFormField(reqBody, "QueueUrl")
        queueName == extractQueueName(queueURL)
        failed == IF isJSON THEN parseJSONField(respBody, "__type") # ""
                  ELSE extractXMLTag(XMLNodes(respBody), "Code") # ""
    IN  CASE action = "SendMessage" ->
               handleSendMessage(queueURL, queueName, reqBody, respBody, isJSON)
          [] action = "SendMessageBatch" ->
               handleSendMessageBatch(queueURL, queueName, reqBody, respBody,
                                      isJSON)
          [] action = "ReceiveMessage" ->
               handleReceiveMessage(queueURL, queueName, respBody, isJSON)
          [] action = "DeleteMessage" /\ ~failed ->
               handleDeleteMessage(queueURL, queueName, reqBody, isJSON)
          [] action = "DeleteMessageBatch" /\ ~failed ->
               handleDeleteMessageBatch(queueURL, queueName, reqBody, isJSON)
          [] OTHER -> << >>

Dispatch(reqBody, contentType, amzTarget, respBody) ==
    LET isJSON == ContainsJSON(contentType)
        action == IF parseActionFromTarget(amzTarget) = ""
                  THEN parseActionFromForm(reqBody)
                  ELSE parseActionFromTarget(amzTarget)
        queueURL == IF isJSON THEN parseJSONField(reqBody, "QueueUrl")
                    ELSE parseFormField(reqBody, "QueueUrl")
        queueName == extractQueueName(queueURL)
    IN  CASE action = "SendMessage" ->
               handleSendMessage(queueURL, queueName, reqBody, respBody, isJSON)
          [] action = "SendMessageBatch" ->
               handleSendMessageBatch(queueURL, queueName, reqBody, respBody,
                                      isJSON)
          [] action = "ReceiveMessage" ->
               handleReceiveMessage(queueURL, queueName, respBody, isJSON)
          [] action = "DeleteMessage" ->
               handleDeleteMessage(queueURL, queueName, reqBody, isJSON)
          [] action = "DeleteMessageBatch" ->
               handleDeleteMessageBatch(queueURL, queueName, reqBody, isJSON)
          [] OTHER -> << >>

(***************************************************************************)
(* The calls of the store API.  Each is one critical section of Store.mu.  *)
(***************************************************************************)
Install(s) ==
    /\ messages' = s.messages
    /\ queues' = s.queues
    /\ history' = s.history
    /\ receipts' = s.receipts
    /\ heap' = s.heap
    /\ idCounter' = s.idCounter

Called(op, queueURL, queueName, messageID, receiptHandle, body) ==
    [op |-> op, queueURL |-> queueURL, queueName |-> queueName,
     messageID |-> messageID, receiptHandle |-> receiptHandle, body |-> body]

DoRecordSend(queueURL, queueName, messageID, body, attributes) ==
    /\ idCounter < MaxEvents
    /\ Install(RecordSend(TheStore, queueURL, queueName, messageID, body,
                          attributes, now))
    /\ calls' = Append(calls, Called(ActionSend, queueURL, queueName,
                                     messageID, "", body))
    /\ ret' = NoRet

DoRecordReceive(queueURL, queueName, messageID, receiptHandle, body, attributes) ==
    /\ idCounter < MaxEvents
    /\ Install(RecordReceive(TheStore, queueURL, queueName, messageID,
                             receiptHandle, body, attributes, now))
    /\ calls' = Append(calls, Called(ActionReceive, queueURL, queueName,
                                     messageID, receiptHandle, body))
    /\ ret' = NoRet

DoRecordDelete(queueURL, queueName, receiptHandle) ==
    /\ idCounter < MaxEvents
    /\ Install(RecordDelete(TheStore, queueURL, queueName, receiptHandle, now))
    /\ calls' = Append(calls, Called(ActionDelete, queueURL, queueName,
                                     "", receiptHandle, ""))
    /\ ret' = NoRet

DoClear ==
    /\ Install(Clear(TheStore))
    /\ calls' = << >>
    /\ ret' = NoRet

\* The store compares queue URLs, message ids and receipt handles only for
\* equality, so a caller's arguments are enumerated up to renaming: each
\* argument is a name some call since the last Clear has used, or the one
\* next unused name of its kind.
Named(field) == {calls[i][field] : i \in 1..Len(calls)} \ {""}

Names(S, field) ==
    LET unused == S \ Named(field)
    IN  (S \cap Named(field)) \cup
        (IF unused = {} THEN {} ELSE {CHOOSE x \in unused : TRUE})

CallRecordSend ==
    /\ \E u \in Names(QueueURLs, "queueURL"),
          m \in Names(MessageIDs, "messageID") :
         DoRecordSend(u, extractQueueName(u), m, SendBody, NoAttrs)
    /\ UNCHANGED <<now, conn, lockVars>>

CallRecordReceive ==
    /\ \E u \in Names(QueueURLs, "queueURL"),
          m \in Names(MessageIDs, "messageID"),
          rh \in Names(ReceiptHandles, "receiptHandle") :
         DoRecordReceive(u, extractQueueName(u), m, rh, ReceiveBody, SomeAttrs)
    /\ UNCHANGED <<now, conn, lockVars>>

CallRecordDelete ==
    /\ \E u \in Names(QueueURLs, "queueURL"),
          rh \in Names(ReceiptHandles, "receiptHandle") :
         DoRecordDelete(u, extractQueueName(u), rh)
    /\ UNCHANGED <<now, conn, lockVars>>

\* Dashboard.handleClear
CallClear ==
    /\ DoClear
    /\ UNCHANGED <<now, conn, lockVars>>

\* Dashboard.handleMessages
CallGetMessages ==
    /\ \E q \in {""} \cup {extractQueueName(u) : u \in QueueURLs},
          d \in BOOLEAN :
         ret' = [op |-> "GetMessages",
                 result |-> GetMessages(TheStore, q, d)]
    /\ UNCHANGED <<storeVars, now, calls, conn, lockVars>>

\* Dashboard.handleHistory
CallGetHistory ==
    /\ \E limit \in -1..(MaxEvents + 1) :
         ret' = [op |-> "GetHistory", limit |-> limit,
                 result |-> GetHistory(TheStore, limit)]
    /\ UNCHANGED <<storeVars, now, calls, conn, lockVars>>

\* Dashboard.handleStats
CallGetQueueStats ==
    /\ ret' = [op |-> "GetQueueStats", result |-> GetQueueStats(TheStore)]
    /\ UNCHANGED <<storeVars, now, calls, conn, lockVars>>

(***************************************************************************)
(* Package proxy: the exchanges.                                           *)
(*                                                                         *)
(* An http.Header is a map from names to values; a Body is a stream, of    *)
(* which io.ReadAll takes what is unread and leaves nothing.               *)
(***************************************************************************)
Requests == {"r1", "r2"}

None == [none |-> TRUE]

HeaderGet(h, name) == IF name \in DOMAIN h THEN h[name] ELSE ""
HeaderSet(h, name, v) == MapPut(h, name, v)
HeaderDel(h, name) == [x \in (DOMAIN h) \ {name} |-> h[x]]

RelayRequestBody == "X-SQS-Relay-Request-Body"
RelayContentType == "X-SQS-Relay-Content-Type"
RelayAmzTarget == "X-SQS-Relay-Amz-Target"
RelayHeaders == {RelayRequestBody, RelayContentType, RelayAmzTarget}

\* io.NopCloser(bytes.NewReader(body)), io.ReadAll and the stream it leaves
NewReader(body) == [unread |-> body]
ReadAll(stream) == stream.unread
Drained == [unread |-> EmptyText]

(***************************************************************************)
(* What clients send and what the upstream answers.                        *)
(***************************************************************************)
JSONType == "application/x-amz-json-1.0"
FormType == "application/x-www-form-urlencoded"
XMLType == "text/xml"

JSONRequest(target, o) ==
    [headers |-> [h \in {"Content-Type", "X-Amz-Target"} |->
                    IF h = "Content-Type" THEN JSONType ELSE target],
     body |-> JSONText(o)]

FormRequest(pairs) ==
    [headers |-> [h \in {"Content-Type"} |-> FormType],
     body |-> FormText(pairs)]

Response(status, contentType, body) ==
    [status |-> status,
     headers |-> [h \in {"Content-Type", "X-Amzn-Requestid"} |->
                    IF h = "Content-Type" THEN contentType ELSE "req-1"],
     body |-> body]

JQueue == "http://x/q1"
FQueue == "http%3A%2F%2Fx%2Fq1"

J_SendMessage ==
    JSONRequest("AmazonSQS.SendMessage",
        [f \in {"QueueUrl", "MessageBody", "MessageAttributes"} |->
            CASE f = "QueueUrl" -> JStr(JQueue)
              [] f = "MessageBody" -> JStr("hi there")
              [] OTHER -> JObj([n \in {"k"} |->
                    JObj([a \in {"DataType", "StringValue"} |->
                        IF a = "DataType" THEN JStr("String") ELSE JStr("v")])])])

J_SendMessageBatch ==
    JSONRequest("AmazonSQS.SendMessageBatch",
        [f \in {"QueueUrl", "Entries"} |->
            IF f = "QueueUrl" THEN JStr(JQueue)
            ELSE JArr(<<JObj([a \in {"Id", "MessageBody"} |->
                               IF a = "Id" THEN JStr("a") ELSE JStr("hi")]),
                        JObj([a \in {"Id", "MessageBody"} |->
                               IF a = "Id" THEN JStr("b") ELSE JStr("yo")])>>)])

J_ReceiveMessage ==
    JSONRequest("AmazonSQS.ReceiveMessage",
        [f \in {"QueueUrl", "MaxNumberOfMessages"} |->
            IF f = "QueueUrl" THEN JStr(JQueue) ELSE JNum(10)])

J_DeleteMessage ==
    JSONRequest("AmazonSQS.DeleteMessage",
        [f \in {"QueueUrl", "ReceiptHandle"} |->
            IF f = "QueueUrl" THEN JStr(JQueue) ELSE JStr("rh1")])

J_DeleteMessageBatch ==
    JSONRequest("AmazonSQS.DeleteMessageBatch",
        [f \in {"QueueUrl", "Entries"} |->
            IF f = "QueueUrl" THEN JStr(JQueue)
            ELSE JArr(<<JObj([a \in {"Id", "ReceiptHandle"} |->
                               IF a = "Id" THEN JStr("a") ELSE JStr("rh1")]),
                        JObj([a \in {"Id", "ReceiptHandle"} |->
                               IF a = "Id" THEN JStr("b") ELSE JStr("rh2")])>>)])

J_ListQueues == JSONRequest("AmazonSQS.ListQueues", EmptyMap)

F_SendMessage ==
    FormRequest(<<Pair("Action", "SendMessage"), Pair("QueueUrl", FQueue),
                  Pair("MessageBody", "hi+there"),
                  IndexedPair("MessageAttribute", "1", "Name", "k"),
                  IndexedPair("MessageAttribute", "1", "Value.DataType",
                              "String"),
                  IndexedPair("MessageAttribute", "1", "Value.StringValue",
                              "v")>>)

F_SendMessageBatch ==
    FormRequest(<<Pair("Action", "SendMessageBatch"), Pair("QueueUrl", FQueue),
                  IndexedPair("SendMessageBatchRequestEntry", "1", "Id", "a"),
                  IndexedPair("SendMessageBatchRequestEntry", "1",
                              "MessageBody", "hi"),
                  IndexedPair("SendMessageBatchRequestEntry", "2", "Id", "b"),
                  IndexedPair("SendMessageBatchRequestEntry", "2",
                              "MessageBody", "yo")>>)

F_ReceiveMessage ==
    FormRequest(<<Pair("Action", "ReceiveMessage"), Pair("QueueUrl", FQueue)>>)

F_DeleteMessage ==
    FormRequest(<<Pair("Action", "DeleteMessage"), Pair("QueueUrl", FQueue),
                  Pair("ReceiptHandle", "rh1")>>)

F_DeleteMessageBatch ==
    FormRequest(<<Pair("Action", "DeleteMessageBatch"),
                  Pair("QueueUrl", FQueue),
                  IndexedPair("DeleteMessageBatchRequestEntry", "1", "Id", "a"),
                  IndexedPair("DeleteMessageBatchRequestEntry", "1",
                              "ReceiptHandle", "rh1"),
                  IndexedPair("DeleteMessageBatchRequestEntry", "2", "Id", "b"),
                  IndexedPair("DeleteMessageBatchRequestEntry", "2",
                              "ReceiptHandle", "rh2")>>)

\* a request without a body: no Action
F_Empty == [headers |-> EmptyMap, body |-> EmptyText]

ClientRequests ==
    {J_SendMessage, J_SendMessageBatch, J_ReceiveMessage, J_DeleteMessage,
     J_DeleteMessageBatch, J_ListQueues, F_SendMessage, F_SendMessageBatch,
     F_ReceiveMessage, F_DeleteMessage, F_DeleteMessageBatch, F_Empty}

JR_SendMessage ==
    Response(200, JSONType, JSONText(
        [f \in {"MessageId", "MD5OfMessageBody"} |->
            IF f = "MessageId" THEN JStr("m1") ELSE JStr("5d41")]))

JR_SendMessageBatch ==
    Response(200, JSONType, JSONText(
        [f \in {"Successful"} |->
            JArr(<<JObj([a \in {"Id", "MessageId"} |->
                          IF a = "Id" THEN JStr("a") ELSE JStr("m1")]),
                   JObj([a \in {"Id", "MessageId"} |->
                          IF a = "Id" THEN JStr("b") ELSE JStr("m2")])>>)]))

\* a batch answer whose second entry has an empty MessageId
JR_SendMessageBatchNoID ==
    Response(200, JSONType, JSONText(
        [f \in {"Successful"} |->
            JArr(<<JObj([a \in {"Id", "MessageId"} |->
                          IF a = "Id" THEN JStr("a") ELSE JStr("m1")]),
                   JObj([a \in {"Id", "MessageId"} |->
                          IF a = "Id" THEN JStr("b") ELSE JStr("")])>>)]))

JR_ReceiveMessage ==
    Response(200, JSONType, JSONText(
        [f \in {"Messages"} |->
            JArr(<<JObj([a \in {"MessageId", "ReceiptHandle", "Body",
                                "MessageAttributes"} |->
                CASE a = "MessageId" -> JStr("m1")
                  [] a = "ReceiptHandle" -> JStr("rh1")
                  [] a = "Body" -> JStr("hi there")
                  [] OTHER -> JObj([n \in {"k"} |->
                        JObj([x \in {"DataType", "StringValue"} |->
                            IF x = "DataType" THEN JStr("String")
                            ELSE JStr("v")])])])>>)]))

JR_Empty == Response(200, JSONType, JSONText(EmptyMap))

JR_Error ==
    Response(400, JSONType, JSONText(
        [f \in {"__type", "message"} |->
            IF f = "__type" THEN JStr("QueueDoesNotExist") ELSE JStr("no")]))

XMetadata == Element("ResponseMetadata", <<Leaf("RequestId", "req-1")>>)

XR_SendMessage ==
    Response(200, XMLType, XMLText(
        <<Element("SendMessageResponse",
            <<Element("SendMessageResult",
                <<Leaf("MessageId", "m1"), Leaf("MD5OfMessageBody", "5d41")>>),
              XMetadata>>)>>))

XR_SendMessageBatch ==
    Response(200, XMLType, XMLText(
        <<Element("SendMessageBatchResponse",
            <<Element("SendMessageBatchResult",
                <<Element("SendMessageBatchResultEntry",
                    <<Leaf("Id", "a"), Leaf("MessageId", "m1")>>),
                  Element("SendMessageBatchResultEntry",
                    <<Leaf("Id", "b"), Leaf("MessageId", "m2")>>)>>),
              XMetadata>>)>>))

\* a batch answer whose second entry has an empty <MessageId>
XR_SendMessageBatchNoID ==
    Response(200, XMLType, XMLText(
        <<Element("SendMessageBatchResponse",
            <<Element("SendMessageBatchResult",
                <<Element("SendMessageBatchResultEntry",
                    <<Leaf("Id", "a"), Leaf("MessageId", "m1")>>),
                  Element("SendMessageBatchResultEntry",
                    <<Leaf("Id", "b"), Leaf("MessageId", "")>>)>>),
              XMetadata>>)>>))

XR_ReceiveMessage ==
    Response(200, XMLType, XMLText(
        <<Element("ReceiveMessageResponse",
            <<Element("ReceiveMessageResult",
                <<Element("Message",
                    <<Leaf("MessageId", "m1"), Leaf("ReceiptHandle", "rh1"),
                      Leaf("Body", "hi there"),
                      Element("MessageAttribute",
                        <<Leaf("Name", "k"),
                          Element("Value",
                            <<Leaf("DataType", "String"),
                              Leaf("StringValue", "v")>>)>>)>>)>>),
              XMetadata>>)>>))

XR_Empty ==
    Response(200, XMLType, XMLText(
        <<Element("DeleteMessageResponse", <<XMetadata>>)>>))

XR_Error ==
    Response(400, XMLType, XMLText(
        <<Element("ErrorResponse",
            <<Element("Error", <<Leaf("Code", "QueueDoesNotExist")>>),
              Leaf("RequestId", "req-1")>>)>>))

\* what the upstream may answer to a request: the result of the operation
\* or an error, in the protocol of the request
UpstreamResponses(request) ==
    CASE request = J_SendMessage -> {JR_SendMessage, JR_Error}
      [] request = J_SendMessageBatch ->
            {JR_SendMessageBatch, JR_SendMessageBatchNoID, JR_Error}
      [] request = J_ReceiveMessage -> {JR_ReceiveMessage, JR_Empty, JR_Error}
      [] request = J_DeleteMessage -> {JR_Empty, JR_Error}
      [] request = J_DeleteMessageBatch -> {JR_Empty, JR_Error}
      [] request = J_ListQueues -> {JR_Empty}
      [] request = F_SendMessage -> {XR_SendMessage, XR_Error}
      [] request = F_SendMessageBatch ->
            {XR_SendMessageBatch, XR_SendMessageBatchNoID, XR_Error}
      [] request = F_ReceiveMessage -> {XR_ReceiveMessage, XR_Empty, XR_Error}
      [] request = F_DeleteMessage -> {XR_Empty, XR_Error}
      [] request = F_DeleteMessageBatch -> {XR_Empty, XR_Error}
      [] OTHER -> {XR_Error}

\* the answers the proxy itself writes
BadGateway == [status |-> 502, headers |-> EmptyMap, body |-> EmptyText]
ReadFailed == [status |-> 500, headers |-> EmptyMap, body |-> EmptyText]

(***************************************************************************)
(* The steps of one exchange r.                                            *)
(***************************************************************************)
Idle ==
    [pc |-> "idle", sent |-> None, req |-> None, wire |-> None,
     produced |-> None, resp |-> None, err |-> "", todo |-> << >>,
     got |-> None]

\* a client sends one of the given requests; net/http hands it to
\* Proxy.ServeHTTP
ArriveOf(r, requests) ==
    /\ conn[r].pc = "idle"
    /\ \E request \in requests :
         conn' = [conn EXCEPT ![r] =
                    [@ EXCEPT !.pc = "serve",
                              !.sent = request,
                              !.req = [headers |-> request.headers,
                                       Body |-> NewReader(request.body)]]]
    /\ UNCHANGED <<storeVars, now, ret, calls, lockVars>>

Arrive(r) == ArriveOf(r, ClientRequests)

\* the request ServeHTTP hands to the reverse proxy
Buffered(req) ==
    LET body == ReadAll(req.Body)
        h1 == HeaderSet(req.headers, RelayRequestBody, body)
        h2 == HeaderSet(h1, RelayContentType,
                        HeaderGet(req.headers, "Content-Type"))
        h3 == HeaderSet(h2, RelayAmzTarget,
                        HeaderGet(req.headers, "X-Amz-Target"))
    IN  [headers |-> h3, Body |-> NewReader(body)]

\* Proxy.ServeHTTP up to the call of p.proxy.ServeHTTP
ServeHTTP(r) ==
    /\ conn[r].pc = "serve"
    /\ conn' = [conn EXCEPT ![r] =
                  [@ EXCEPT !.pc = "roundtrip", !.req = Buffered(conn[r].req)]]
    /\ UNCHANGED <<storeVars, now, ret, calls, lockVars>>

\* Proxy.ServeHTTP when reading the request body fails
ServeHTTPReadError(r) ==
    /\ conn[r].pc = "serve"
    /\ conn' = [conn EXCEPT ![r] =
                  [@ EXCEPT !.pc = "done", !.req.Body = Drained,
                            !.err = "request body", !.got = ReadFailed]]
    /\ UNCHANGED <<storeVars, now, ret, calls, lockVars>>

\* the reverse proxy sends the request it was handed (the Director changes
\* the address only) and the upstream answers
RoundTrip(r) ==
    /\ conn[r].pc = "roundtrip"
    /\ \E answer \in UpstreamResponses(conn[r].sent) :
         conn' = [conn EXCEPT ![r] =
                    [@ EXCEPT !.pc = "modify",
                              !.wire = [headers |-> conn[r].req.headers,
                                        body |-> ReadAll(conn[r].req.Body)],
                              !.req.Body = Drained,
                              !.produced = answer,
                              !.resp = [status |-> answer.status,
                                        headers |-> answer.headers,
                                        Body |-> NewReader(answer.body)]]]
    /\ UNCHANGED <<storeVars, now, ret, calls, lockVars>>

\* an error path that still runs the handlers, on the request alone
RoundTripError_Records(r) ==
    /\ conn[r].pc = "roundtrip"
    /\ \E reached \in BOOLEAN :
         conn' = [conn EXCEPT ![r] =
                    [@ EXCEPT !.pc = "dispatch",
                              !.wire = IF reached
                                       THEN [headers |-> conn[r].req.headers,
                                             body |-> ReadAll(conn[r].req.Body)]
                                       ELSE None,
                              !.req.Body = Drained,
                              !.err = "round trip",
                              !.resp = [status |-> BadGateway.status,
                                        headers |-> BadGateway.headers,
                                        Body |-> NewReader(BadGateway.body)],
                              !.todo = Dispatch(
                                  HeaderGet(conn[r].req.headers, RelayRequestBody),
                                  HeaderGet(conn[r].req.headers, RelayContentType),
                                  HeaderGet(conn[r].req.headers, RelayAmzTarget),
                                  EmptyText)]]
    /\ UNCHANGED <<storeVars, now, ret, calls, lockVars>>

\* the round trip fails or is cancelled, before or after the upstream got
\* the request: the reverse proxy answers 502 and ModifyResponse is not run
RoundTripError(r) ==
    /\ conn[r].pc = "roundtrip"
    /\ \E reached \in BOOLEAN :
         conn' = [conn EXCEPT ![r] =
                    [@ EXCEPT !.pc = "done",
                              !.wire = IF reached
                                       THEN [headers |-> conn[r].req.headers,
                                             body |-> ReadAll(conn[r].req.Body)]
                                       ELSE None,
                              !.req.Body = Drained,
                              !.err = "round trip",
                              !.got = BadGateway]]
    /\ UNCHANGED <<storeVars, now, ret, calls, lockVars>>

\* the request headers after the three Header.Del of modifyResponse
WithoutRelayHeaders(h) ==
    HeaderDel(HeaderDel(HeaderDel(h, RelayRequestBody), RelayContentType),
              RelayAmzTarget)

\* a modifyResponse that does not put the body it read back
Restored_Not(body) == Drained

\* the response body modifyResponse leaves for the reverse proxy to copy
Restored(body) == NewReader(body)

\* a modifyResponse that reads the metadata of another request in flight
ModifyResponse_Other(r) ==
    /\ conn[r].pc = "modify"
    /\ LET others == { q \in Requests \ {r} :
                         /\ conn[q].req # None
                         /\ RelayRequestBody \in DOMAIN conn[q].req.headers }
           o == IF others = {} THEN r ELSE CHOOSE q \in others : TRUE
           reqBody == HeaderGet(conn[o].req.headers, RelayRequestBody)
           contentType == HeaderGet(conn[o].req.headers, RelayContentType)
           amzTarget == HeaderGet(conn[o].req.headers, RelayAmzTarget)
           body == ReadAll(conn[r].resp.Body)
       IN  conn' = [conn EXCEPT ![r] =
                      [@ EXCEPT !.pc = "dispatch",
                                !.req.headers = WithoutRelayHeaders(@),
                                !.resp.Body = Restored(body),
                                !.todo = Dispatch(reqBody, contentType,
                                                  amzTarget, body)]]
    /\ UNCHANGED <<storeVars, now, ret, calls, lockVars>>

\* modifyResponse up to its switch: the store calls to make are fixed
ModifyResponse(r) ==
    /\ conn[r].pc = "modify"
    /\ LET reqBody == HeaderGet(conn[r].req.headers, RelayRequestBody)
           contentType == HeaderGet(conn[r].req.headers, RelayContentType)
           amzTarget == HeaderGet(conn[r].req.headers, RelayAmzTarget)
           body == ReadAll(conn[r].resp.Body)
       IN  conn' = [conn EXCEPT ![r] =
                      [@ EXCEPT !.pc = "dispatch",
                                !.req.headers = WithoutRelayHeaders(@),
                                !.resp.Body = Restored(body),
                                !.todo = Dispatch(reqBody, contentType,
                                                  amzTarget, body)]]
    /\ UNCHANGED <<storeVars, now, ret, calls, lockVars>>

\* modifyResponse when reading the response body fails: it returns the
\* error and the reverse proxy answers 502
ModifyResponseReadError(r) ==
    /\ conn[r].pc = "modify"
    /\ conn' = [conn EXCEPT ![r] =
                  [@ EXCEPT !.pc = "done",
                            !.req.headers = WithoutRelayHeaders(@),
                            !.resp.Body = Drained,
                            !.err = "response body",
                            !.got = BadGateway]]
    /\ UNCHANGED <<storeVars, now, ret, calls, lockVars>>

\* the next p.store call of the handler modifyResponse switched to
StoreCall(r) ==
    /\ conn[r].pc = "dispatch"
    /\ conn[r].todo # << >>
    /\ LET c == Head(conn[r].todo)
       IN  CASE c.op = ActionSend ->
                  DoRecordSend(c.queueURL, c.queueName, c.messageID, c.body,
                               c.attributes)
             [] c.op = ActionReceive ->
                  DoRecordReceive(c.queueURL, c.queueName, c.messageID,
                                  c.receiptHandle, c.body, c.attributes)
             [] c.op = ActionDelete ->
                  DoRecordDelete(c.queueURL, c.queueName, c.receiptHandle)
    /\ conn' = [conn EXCEPT ![r].todo = Tail(@)]
    /\ UNCHANGED <<now, lockVars>>

\* modifyResponse returns nil and the reverse proxy copies the response,
\* status, headers and body, to the client
Respond(r) ==
    /\ conn[r].pc = "dispatch"
    /\ conn[r].todo = << >>
    /\ conn' = [conn EXCEPT ![r] =
                  [@ EXCEPT !.pc = "done",
                            !.got = [status |-> conn[r].resp.status,
                                     headers |-> conn[r].resp.headers,
                                     body |-> ReadAll(conn[r].resp.Body)],
                            !.resp.Body = Drained]]
    /\ UNCHANGED <<storeVars, now, ret, calls, lockVars>>

(***************************************************************************)
(* The store under its lock.  The goroutines serving the requests of the   *)
(* proxy and of the dashboard call the store's methods; each method takes  *)
(* Store.mu, runs its body and releases the lock when it returns (defer).  *)
(***************************************************************************)
Dashboards == {"d1", "d2"}
Goroutines == Requests \cup Dashboards

\* the zero sync.RWMutex
Free == [writer |-> "", readers |-> {}]

\* a goroutine that is in no store method
Outside == [op |-> "none", step |-> 0]

RecordMethods == {"RecordSend", "RecordReceive", "RecordDelete"}
Mutators == RecordMethods \cup {"Clear"}
Queries == {"GetMessages", "GetHistory", "GetQueueStats"}

\* a Lock that does not wait for the readers
CanLock_IgnoresReaders(m) == m.writer = ""

\* s.mu.Lock() returns when no goroutine holds the lock in either mode
CanLock(m) == m.writer = "" /\ m.readers = {}

\* an RLock that does not wait for the writer
CanRLock_Always(m) == TRUE

\* s.mu.RLock() returns when no goroutine holds the lock for writing
CanRLock(m) == m.writer = ""

Lock(m, g) == [m EXCEPT !.writer = g]
Unlock(m, g) == [m EXCEPT !.writer = ""]
RLock(m, g) == [m EXCEPT !.readers = @ \cup {g}]
RUnlock(m, g) == [m EXCEPT !.readers = @ \ {g}]

\* the store method a call of a handler is
MethodOf(c) ==
    CASE c.op = ActionSend -> "RecordSend"
      [] c.op = ActionReceive -> "RecordReceive"
      [] c.op = ActionDelete -> "RecordDelete"

\* the handler's next p.store call: s.mu.Lock()
EnterRecord(r) ==
    /\ conn[r].pc = "dispatch"
    /\ conn[r].todo # << >>
    /\ inside[r] = Outside
    /\ idCounter < MaxEvents
    /\ CanLock(mu)
    /\ mu' = Lock(mu, r)
    /\ inside' = [inside EXCEPT ![r] =
                    [op |-> MethodOf(Head(conn[r].todo)), step |-> 0]]
    /\ UNCHANGED <<storeVars, now, ret, calls, conn, idMu>>

\* the body of RecordSend, RecordReceive or RecordDelete
RecordBody(r) ==
    /\ inside[r].op \in RecordMethods
    /\ inside[r].step = 0
    /\ LET c == Head(conn[r].todo)
       IN  CASE c.op = ActionSend ->
                  DoRecordSend(c.queueURL, c.queueName, c.messageID, c.body,
                               c.attributes)
             [] c.op = ActionReceive ->
                  DoRecordReceive(c.queueURL, c.queueName, c.messageID,
                                  c.receiptHandle, c.body, c.attributes)
             [] c.op = ActionDelete ->
                  DoRecordDelete(c.queueURL, c.queueName, c.receiptHandle)
    /\ inside' = [inside EXCEPT ![r].step = 1]
    /\ UNCHANGED <<now, conn, mu, idMu>>

\* the deferred s.mu.Unlock(); the handler goes on to its next call
LeaveRecord(r) ==
    /\ inside[r].op \in RecordMethods
    /\ inside[r].step = 1
    /\ mu' = Unlock(mu, r)
    /\ inside' = [inside EXCEPT ![r] = Outside]
    /\ conn' = [conn EXCEPT ![r].todo = Tail(@)]
    /\ UNCHANGED <<storeVars, now, ret, calls, idMu>>

\* Dashboard.handleClear calls Store.Clear: s.mu.Lock()
EnterClear(d) ==
    /\ inside[d] = Outside
    /\ CanLock(mu)
    /\ mu' = Lock(mu, d)
    /\ inside' = [inside EXCEPT ![d] = [op |-> "Clear", step |-> 0]]
    /\ UNCHANGED <<storeVars, now, ret, calls, conn, idMu>>

\* the four assignments of Clear, one at a time, in the order of the source
ClearAssign(d) ==
    /\ inside[d].op = "Clear"
    /\ inside[d].step \in 0..3
    /\ CASE inside[d].step = 0 ->
              /\ messages' = Clear(TheStore).messages
              /\ UNCHANGED <<queues, history, receipts, heap, idCounter, ret,
                             calls>>
         [] inside[d].step = 1 ->
              /\ queues' = Clear(TheStore).queues
              /\ UNCHANGED <<messages, history, receipts, heap, idCounter, ret,
                             calls>>
         [] inside[d].step = 2 ->
              /\ history' = Clear(TheStore).history
              /\ UNCHANGED <<messages, queues, receipts, heap, idCounter, ret,
                             calls>>
         [] inside[d].step = 3 -> DoClear
    /\ inside' = [inside EXCEPT ![d].step = @ + 1]
    /\ UNCHANGED <<now, conn, mu, idMu>>

\* the deferred s.mu.Unlock() of Clear
LeaveClear(d) ==
    /\ inside[d].op = "Clear"
    /\ inside[d].step = 4
    /\ mu' = Unlock(mu, d)
    /\ inside' = [inside EXCEPT ![d] = Outside]
    /\ UNCHANGED <<storeVars, now, ret, calls, conn, idMu>>

\* a handler of the dashboard calls a query: s.mu.RLock()
EnterQuery(d) ==
    /\ inside[d] = Outside
    /\ CanRLock(mu)
    /\ mu' = RLock(mu, d)
    /\ \E q \in Queries :
         inside' = [inside EXCEPT ![d] = [op |-> q, step |-> 0]]
    /\ UNCHANGED <<storeVars, now, ret, calls, conn, idMu>>

\* the body of GetMessages("", true), GetHistory(0) or GetQueueStats()
QueryBody(d) ==
    /\ inside[d].op \in Queries
    /\ inside[d].step = 0
    /\ ret' = CASE inside[d].op = "GetMessages" ->
                     [op |-> "GetMessages",
                      result |-> GetMessages(TheStore, "", TRUE)]
                [] inside[d].op = "GetHistory" ->
                     [op |-> "GetHistory", limit |-> 0,
                      result |-> GetHistory(TheStore, 0)]
                [] inside[d].op = "GetQueueStats" ->
                     [op |-> "GetQueueStats",
                      result |-> GetQueueStats(TheStore)]
    /\ inside' = [inside EXCEPT ![d].step = 1]
    /\ UNCHANGED <<storeVars, now, calls, conn, mu, idMu>>

\* the deferred s.mu.RUnlock()
LeaveQuery(d) ==
    /\ inside[d].op \in Queries
    /\ inside[d].step = 1
    /\ mu' = RUnlock(mu, d)
    /\ inside' = [inside EXCEPT ![d] = Outside]
    /\ UNCHANGED <<storeVars, now, ret, calls, conn, idMu>>

Init ==
    /\ messages = New.messages
    /\ queues = New.queues
    /\ history = New.history
    /\ receipts = New.receipts
    /\ heap = << >>
    /\ idCounter = 0
    /\ now = 0
    /\ ret = NoRet
    /\ calls = << >>
    /\ conn = [r \in Requests |-> Idle]
    /\ mu = Free
    /\ inside = [g \in Goroutines |-> Outside]
    /\ idMu = ""

Next ==
    \/ CallRecordSend
    \/ CallRecordReceive
    \/ CallRecordDelete
    \/ CallClear
    \/ CallGetMessages
    \/ CallGetHistory
    \/ CallGetQueueStats

Spec == Init /\ [][Next]_vars

ProxyNext ==
    \E r \in Requests :
        \/ Arrive(r)
        \/ ServeHTTP(r)
        \/ ServeHTTPReadError(r)
        \/ RoundTrip(r)
        \/ RoundTripError(r)
        \/ ModifyResponse(r)
        \/ ModifyResponseReadError(r)
        \/ StoreCall(r)
        \/ Respond(r)

ProxySpec == Init /\ [][ProxyNext]_vars

\* the requests of the exchanges that run under the lock: one of each
\* store method
LockRequests == {J_SendMessage, J_ReceiveMessage, J_DeleteMessage}

Accept(r) == ArriveOf(r, LockRequests)

\* the exchanges and the dashboard's handlers, each in its own goroutine,
\* with every store method as the steps it takes under Store.mu
LockNext ==
    \/ \E r \in Requests :
        \/ Accept(r)
        \/ ServeHTTP(r)
        \/ ServeHTTPReadError(r)
        \/ RoundTrip(r)
        \/ RoundTripError(r)
        \/ ModifyResponse(r)
        \/ ModifyResponseReadError(r)
        \/ EnterRecord(r)
        \/ RecordBody(r)
        \/ LeaveRecord(r)
        \/ Respond(r)
    \/ \E d \in Dashboards :
        \/ EnterClear(d)
        \/ ClearAssign(d)
        \/ LeaveClear(d)
        \/ EnterQuery(d)
        \/ QueryBody(d)
        \/ LeaveQuery(d)

LockSpec == Init /\ [][LockNext]_vars

\* idCounter is a package variable that no Clear resets: the values it may
\* have when a history begins, after as many earlier events
StartCounters == {0, SurrogateMin - 2, RuneError - 2, MaxRune - 1}

IdInit ==
    /\ messages = New.messages
    /\ queues = New.queues
    /\ history = New.history
    /\ receipts = New.receipts
    /\ heap = << >>
    /\ idCounter \in StartCounters
    /\ now = 0
    /\ ret = NoRet
    /\ calls = << >>
    /\ conn = [r \in Requests |-> Idle]
    /\ mu = Free
    /\ inside = [g \in Goroutines |-> Outside]
    /\ idMu = ""

\* one more Record* call in a history of fewer than MaxEvents events
IdRecord ==
    /\ Len(history) < MaxEvents
    /\ \E u \in Names(QueueURLs, "queueURL"),
          m \in Names(MessageIDs, "messageID"),
          rh \in Names(ReceiptHandles, "receiptHandle") :
         \/ /\ Install(RecordSend(TheStore, u, extractQueueName(u), m,
                                  SendBody, NoAttrs, now))
            /\ calls' = Append(calls, Called(ActionSend, u,
                                             extractQueueName(u), m, "",
                                             SendBody))
         \/ /\ Install(RecordReceive(TheStore, u, extractQueueName(u), m, rh,
                                     ReceiveBody, SomeAttrs, now))
            /\ calls' = Append(calls, Called(ActionReceive, u,
                                             extractQueueName(u), m, rh,
                                             ReceiveBody))
         \/ /\ Install(RecordDelete(TheStore, u, extractQueueName(u), rh, now))
            /\ calls' = Append(calls, Called(ActionDelete, u,
                                             extractQueueName(u), "", rh, ""))
    /\ ret' = NoRet
    /\ UNCHANGED <<now, conn, lockVars>>

IdSpec == IdInit /\ [][IdRecord]_vars

(***************************************************************************)
(* Properties of the proxy.                                                *)
(***************************************************************************)
\* C1: the request the upstream receives is the request the client sent,
\* headers and body; the metadata the proxy carries to the response phase
\* is not in it.
C1_UpstreamGetsClientRequest ==
    \A r \in Requests :
        conn[r].wire # None =>
            /\ DOMAIN conn[r].wire.headers \cap RelayHeaders = {}
            /\ DOMAIN conn[r].wire.headers = DOMAIN conn[r].sent.headers
            /\ \A h \in DOMAIN conn[r].sent.headers :
                 conn[r].wire.headers[h] = conn[r].sent.headers[h]
            /\ conn[r].wire.body = conn[r].sent.body

\* C2: when no step of the exchange failed, the client gets the status, the
\* headers and the body the upstream produced, and none of the metadata,
\* whatever the exchange made the store record.
C2_ClientGetsUpstreamResponse ==
    \A r \in Requests :
        (conn[r].pc = "done" /\ conn[r].err = "") =>
            /\ conn[r].got.status = conn[r].produced.status
            /\ conn[r].got.headers = conn[r].produced.headers
            /\ conn[r].got.body = conn[r].produced.body
            /\ DOMAIN conn[r].got.headers \cap RelayHeaders = {}

\* an answered SendMessage that was recorded, and an answered exchange that
\* recorded nothing
C2_Witness ==
    \E r1, r2 \in Requests :
        /\ conn[r1].pc = "done" /\ conn[r1].err = ""
        /\ conn[r1].sent = J_SendMessage
        /\ conn[r1].got.body = JR_SendMessage.body
        /\ Len(calls) = 1 /\ calls[1].op = ActionSend
        /\ conn[r2].pc = "done" /\ conn[r2].err = ""
        /\ conn[r2].sent = F_Empty

\* C15: the request of an exchange goes to the upstream at most once; a step
\* of an exchange changes the store only after the upstream's response to
\* it has been received, and then the exchange does not fail any more; an
\* exchange whose round trip failed has no response, makes no store call
\* and takes no further step.
C15_OneRoundTripThenStore ==
    [][\A r \in Requests :
          /\ conn[r].pc \in {"modify", "dispatch", "done"} =>
               /\ conn'[r].wire = conn[r].wire
               /\ conn'[r].produced = conn[r].produced
               /\ conn'[r].pc \in {"modify", "dispatch", "done"}
          /\ (conn'[r] # conn[r] /\ storeVars' # storeVars) =>
               /\ conn[r].pc = "dispatch"
               /\ conn[r].produced # None
               /\ conn[r].wire # None
               /\ conn[r].err = ""
               /\ conn'[r].err = ""
          /\ conn[r].err = "round trip" =>
               /\ conn[r].produced = None
               /\ conn[r].todo = << >>
               /\ conn'[r] = conn[r]]_vars

\* a SendMessage whose round trip failed after the upstream got the request,
\* next to one that was answered and recorded
C15_Witness ==
    \E r1, r2 \in Requests :
        /\ conn[r1].sent = J_SendMessage
        /\ conn[r1].err = "round trip"
        /\ conn[r1].wire # None
        /\ conn[r2].sent = J_SendMessage
        /\ conn[r2].pc = "done" /\ conn[r2].err = ""
        /\ Len(calls) = 1
        /\ Len(history) = 1

\* the actions modifyResponse has a case for
DispatchedActions ==
    {"SendMessage", "SendMessageBatch", "ReceiveMessage", "DeleteMessage",
     "DeleteMessageBatch"}

\* the action modifyResponse identifies for a client's request
IdentifiedAction(request) ==
    IF parseActionFromTarget(HeaderGet(request.headers, "X-Amz-Target")) = ""
    THEN parseActionFromForm(request.body)
    ELSE parseActionFromTarget(HeaderGet(request.headers, "X-Amz-Target"))

\* C16: no step of an exchange whose identified action is Unknown or has no
\* case in modifyResponse changes the table, the membership, the receipt
\* index or the history; the exchange has no store call to make, and when
\* no step of it failed the client gets the upstream's response.
C16_OtherActionsRecordNothing ==
    [][\A r \in Requests :
          (/\ conn[r].sent # None
           /\ IdentifiedAction(conn[r].sent) \notin DispatchedActions
           /\ conn'[r] # conn[r]) =>
                /\ UNCHANGED storeVars
                /\ conn'[r].todo = << >>
                /\ (conn'[r].pc = "done" /\ conn'[r].err = "") =>
                     /\ conn'[r].wire.body = conn'[r].sent.body
                     /\ conn'[r].got.status = conn'[r].produced.status
                     /\ conn'[r].got.headers = conn'[r].produced.headers
                     /\ conn'[r].got.body = conn'[r].produced.body]_vars

\* a ListQueues and a request without an action, both answered, beside a
\* store that is not affected
C16_Witness ==
    \E r1, r2 \in Requests :
        /\ conn[r1].sent = J_ListQueues
        /\ IdentifiedAction(conn[r1].sent) = "ListQueues"
        /\ conn[r1].pc = "done" /\ conn[r1].err = ""
        /\ conn[r1].got.body = JR_Empty.body
        /\ conn[r2].sent = F_Empty
        /\ IdentifiedAction(conn[r2].sent) = "Unknown"
        /\ conn[r2].pc = "done" /\ conn[r2].err = ""
        /\ history = << >>

\* C17: no record_send is made with an empty message id, so no Send event
\* and no current-state entry has one.
C17_NoEmptySendID ==
    /\ \A i \in 1..Len(calls) :
         calls[i].op = ActionSend => calls[i].messageID # ""
    /\ \A i \in 1..Len(history) :
         heap[history[i]].Action = ActionSend =>
             heap[history[i]].MessageID # ""
    /\ "" \notin DOMAIN messages

(***************************************************************************)
(* Properties of the lifecycle store.                                      *)
(***************************************************************************)
\* the current-state record of message id m
Entry(m) == heap[messages[m]]

NumCalls == Len(calls)

\* event e is the one a Record* call c creates (the fields the call fixes)
EventOfCall(e, c) ==
    /\ e.Action = c.op
    /\ e.QueueURL = c.queueURL
    /\ e.QueueName = c.queueName
    /\ e.ReceiptHandle = c.receiptHandle
    /\ (c.op # ActionDelete => e.MessageID = c.messageID /\ e.Body = c.body)

\* the last two calls were record_receive(u,q,m,rh,..) then record_delete(u,q,rh)
ReceiveThenDelete ==
    /\ NumCalls >= 2
    /\ calls[NumCalls - 1].op = ActionReceive
    /\ calls[NumCalls].op = ActionDelete
    /\ calls[NumCalls].receiptHandle = calls[NumCalls - 1].receiptHandle
    /\ calls[NumCalls].queueURL = calls[NumCalls - 1].queueURL
    /\ calls[NumCalls].queueName = calls[NumCalls - 1].queueName

\* this step is a record_delete that follows a record_receive of the same
\* queue and handle
DeleteAfterReceiveStep ==
    /\ NumCalls >= 1
    /\ calls[NumCalls].op = ActionReceive
    /\ calls' = Append(calls, Called(ActionDelete, calls[NumCalls].queueURL,
                                     calls[NumCalls].queueName, "",
                                     calls[NumCalls].receiptHandle, ""))

\* this step is a record_delete of a handle the receipt index does not hold
UnknownDeleteStep ==
    /\ Len(calls') = NumCalls + 1
    /\ calls'[NumCalls + 1].op = ActionDelete
    /\ calls'[NumCalls + 1].receiptHandle \notin DOMAIN receipts

\* C3: no field of an event that is in history ever changes while it stays
\* in history; in particular a Send or Receive event of history never gets
\* the deleted flag or a deletion timestamp.
C3_HistoryImmutable ==
    [][\A i \in 1..Len(history) :
          i <= Len(history') =>
            /\ history'[i] = history[i]
            /\ heap'[history'[i]] = heap[history[i]]]_vars

\* C4: a current-state entry that is deleted stays deleted in every step
\* but a clear.
C4_DeletedIsStable ==
    [][\A m \in DOMAIN messages :
          Entry(m).Deleted =>
            \/ messages' = EmptyMap
            \/ (m \in DOMAIN messages' /\ heap'[messages'[m]].Deleted)]_vars

\* C5: the pending get_queue_stats reports for a queue is the number of
\* entries get_messages(q, false) returns.
C5_PendingIsGetMessages ==
    ret.op = "GetQueueStats" =>
        \A q \in DOMAIN ret.result :
            ret.result[q].Pending =
                Cardinality(GetMessages(TheStore, q, FALSE))

\* C6: after N record operations get_history(limit) returns the N events,
\* most recent first, when limit <= 0 or limit >= N, and the limit most
\* recent ones, most recent first, when 0 < limit < N.
C6_GetHistoryOrder ==
    ret.op = "GetHistory" =>
        LET n == IF ret.limit <= 0 \/ ret.limit >= NumCalls
                 THEN NumCalls ELSE ret.limit
        IN  /\ DOMAIN ret.result = 1..n
            /\ \A i \in 1..n :
                 /\ ret.result[i] = history[NumCalls + 1 - i]
                 /\ EventOfCall(heap[ret.result[i]], calls[NumCalls + 1 - i])
                 /\ \A j \in 1..n : i # j => ret.result[i] # ret.result[j]

C6_Witness ==
    /\ ret.op = "GetHistory"
    /\ NumCalls = 3
    /\ ret.limit = 2
    /\ calls[2].op # calls[3].op
    /\ Len(ret.result) = 2

\* the number of calls of a kind made for queue q since the last clear
CallCount(q, op) ==
    Cardinality({ i \in 1..NumCalls :
                    calls[i].queueName = q /\ calls[i].op = op })

\* C7: get_queue_stats has one entry for each queue name recorded since the
\* last clear and for no other, with the numbers of sends, receives and
\* deletes recorded for that queue.
C7_StatsCountHistory ==
    ret.op = "GetQueueStats" =>
        /\ DOMAIN ret.result = { calls[i].queueName : i \in 1..NumCalls }
        /\ \A q \in DOMAIN ret.result :
             /\ ret.result[q].QueueName = q
             /\ ret.result[q].TotalSent = CallCount(q, ActionSend)
             /\ ret.result[q].TotalReceived = CallCount(q, ActionReceive)
             /\ ret.result[q].TotalDeleted = CallCount(q, ActionDelete)

C7_Witness ==
    /\ ret.op = "GetQueueStats"
    /\ Cardinality(DOMAIN ret.result) = 2
    /\ \E q \in DOMAIN ret.result :
         ret.result[q].TotalSent = 1 /\ ret.result[q].TotalDeleted = 1

\* C8: record_receive(u,q,m,rh,b,a) directly followed by record_delete(u,q,rh)
\* leaves the entry of m deleted with a deletion timestamp, and the Delete
\* event carries m and the entry's body.
C8_ReceiveThenDelete ==
    ReceiveThenDelete =>
        LET m == calls[NumCalls - 1].messageID
            e == heap[Last(history)]
        IN  /\ m \in DOMAIN messages
            /\ Entry(m).Deleted
            /\ Entry(m).DeletedAt # NilTime
            /\ e.Action = ActionDelete
            /\ e.MessageID = m
            /\ e.Body = Entry(m).Body

\* the entry was created by an earlier send, so its body is not the body
\* the receive carried
C8_Witness ==
    /\ ReceiveThenDelete
    /\ calls[NumCalls - 1].messageID \in DOMAIN messages
    /\ Entry(calls[NumCalls - 1].messageID).Body # calls[NumCalls - 1].body
    /\ heap[Last(history)].Body = Entry(calls[NumCalls - 1].messageID).Body

\* the pending get_queue_stats reports for queue q
ReportedPending(s, q) == GetQueueStats(s)[q].Pending

\* C9 as stated: when m has no deleted entry, record_receive(u,q,m,rh,b,a)
\* then record_delete(u,q,rh) lowers the pending reported for q by one.
\* (record_receive changes no deleted flag, so m has no deleted entry before
\* the receive exactly when its entry is not deleted before the delete.)
C9_PendingDropsByOne ==
    [][(DeleteAfterReceiveStep /\ ~Entry(calls[NumCalls].messageID).Deleted)
         => ReportedPending(TheStore', calls[NumCalls].queueName)
              = ReportedPending(TheStore, calls[NumCalls].queueName) - 1]_vars

\* C9 amended: when m has no entry, or one that is not deleted and whose
\* queue name is q, record_receive(u,q,m,rh,b,a) then record_delete(u,q,rh)
\* lowers the pending reported for q by one.
C9_PendingDropsByOneInQueue ==
    [][(/\ DeleteAfterReceiveStep
        /\ ~Entry(calls[NumCalls].messageID).Deleted
        /\ Entry(calls[NumCalls].messageID).QueueName
             = calls[NumCalls].queueName)
         => ReportedPending(TheStore', calls[NumCalls].queueName)
              = ReportedPending(TheStore, calls[NumCalls].queueName) - 1]_vars

\* a send of m2 and then the receive and the delete of m1, all on one queue:
\* pending went from 2 to 1
C9_Witness ==
    /\ ReceiveThenDelete
    /\ NumCalls = 3
    /\ calls[1].op = ActionSend
    /\ calls[1].queueName = calls[3].queueName
    /\ calls[1].messageID # calls[2].messageID
    /\ Entry(calls[2].messageID).QueueName = calls[3].queueName
    /\ ReportedPending(TheStore, calls[3].queueName) = 1

\* C10: record_delete of a handle that is not in the receipt index appends
\* one Delete event with blank message id and body, and changes neither the
\* current-state table and its records, nor a membership set, nor the index.
C10_UnknownDeleteFrame ==
    [][UnknownDeleteStep =>
         /\ Len(history') = Len(history) + 1
         /\ \A i \in 1..Len(history) :
              history'[i] = history[i] /\ heap'[history[i]] = heap[history[i]]
         /\ heap'[Last(history')].Action = ActionDelete
         /\ heap'[Last(history')].MessageID = ""
         /\ heap'[Last(history')].Body = ""
         /\ heap'[Last(history')].ReceiptHandle
              = calls'[NumCalls + 1].receiptHandle
         /\ messages' = messages
         /\ \A m \in DOMAIN messages : heap'[messages[m]] = Entry(m)
         /\ queues' = queues
         /\ receipts' = receipts]_vars

\* an unknown handle deleted while the table and the index are not empty
C10_Witness ==
    /\ NumCalls >= 2
    /\ calls[NumCalls].op = ActionDelete
    /\ calls[NumCalls].receiptHandle \notin DOMAIN receipts
    /\ DOMAIN messages # {}
    /\ DOMAIN receipts # {}
    /\ heap[Last(history)].MessageID = ""

\* C12: every current-state entry, of message id m and queue name q, has m
\* in the membership set of q.
C12_EntryIsMember ==
    \A m \in DOMAIN messages :
        /\ Entry(m).QueueName \in DOMAIN queues
        /\ m \in queues[Entry(m).QueueName]

\* a message that moved to another queue and is still a member of the first,
\* in a queue of two members
C12_Witness ==
    \E m \in DOMAIN messages, q \in DOMAIN queues :
        /\ q # Entry(m).QueueName
        /\ m \in queues[q]
        /\ Cardinality(queues[Entry(m).QueueName]) = 2

\* C13: every entry rh -> m of the receipt index has a Receive event of m
\* with handle rh in history, and m has a current-state entry.
C13_ReceiptsReferToReceived ==
    \A rh \in DOMAIN receipts :
        /\ receipts[rh] \in DOMAIN messages
        /\ \E i \in 1..Len(history) :
             /\ heap[history[i]].Action = ActionReceive
             /\ heap[history[i]].ReceiptHandle = rh
             /\ heap[history[i]].MessageID = receipts[rh]

\* two handles in the index, one of a message that has been deleted since
C13_Witness ==
    /\ Cardinality(DOMAIN receipts) = 2
    /\ \E rh \in DOMAIN receipts : Entry(receipts[rh]).Deleted
    /\ \E rh \in DOMAIN receipts : ~Entry(receipts[rh]).Deleted

\* the record_receive calls made with handle rh since the last clear
ReceivesOf(rh) ==
    { i \in 1..NumCalls :
        calls[i].op = ActionReceive /\ calls[i].receiptHandle = rh }

\* this step is a record_delete of handle rh
DeleteStepOf(rh) ==
    /\ Len(calls') = NumCalls + 1
    /\ calls'[NumCalls + 1].op = ActionDelete
    /\ calls'[NumCalls + 1].receiptHandle = rh

\* C14: when handle rh was received with message m1 and later with another
\* message m2, a record_delete(rh) marks the entry of m2 deleted, gives the
\* Delete event the message id m2 and changes no other entry, m1's included.
C14_LastWriteWins ==
    [][\A rh \in ReceiptHandles :
          \A i, j \in ReceivesOf(rh) :
            (/\ DeleteStepOf(rh)
             /\ i < j
             /\ \A k \in ReceivesOf(rh) : k <= j
             /\ calls[i].messageID # calls[j].messageID) =>
                LET m1 == calls[i].messageID
                    m2 == calls[j].messageID
                IN  /\ m2 \in DOMAIN messages'
                    /\ heap'[messages'[m2]].Deleted
                    /\ heap'[messages'[m2]].DeletedAt # NilTime
                    /\ heap'[Last(history')].Action = ActionDelete
                    /\ heap'[Last(history')].MessageID = m2
                    /\ m1 \in DOMAIN messages /\ m1 \in DOMAIN messages'
                    /\ messages'[m1] = messages[m1]
                    /\ heap'[messages'[m1]] = heap[messages[m1]]
                    /\ \A m \in (DOMAIN messages) \ {m2} :
                         heap'[messages'[m]] = heap[messages[m]]]_vars

\* m1 then m2 received with one handle, and the handle deleted
C14_Witness ==
    /\ NumCalls = 3
    /\ calls[1].op = ActionReceive
    /\ calls[2].op = ActionReceive
    /\ calls[3].op = ActionDelete
    /\ calls[1].receiptHandle = calls[2].receiptHandle
    /\ calls[3].receiptHandle = calls[2].receiptHandle
    /\ calls[1].messageID # calls[2].messageID
    /\ Entry(calls[2].messageID).Deleted
    /\ ~Entry(calls[1].messageID).Deleted

\* the order of two identifiers as strings: by the formatted time, then by
\* the character after the "-"
IdLess(a, b) == a.ts < b.ts \/ (a.ts = b.ts /\ a.r < b.r)

\* C18: the events of history have pairwise distinct identifiers, and an
\* event recorded later has the greater identifier.
C18_IDsDistinctAndMonotonic ==
    \A i, j \in 1..Len(history) :
        i < j =>
            /\ heap[history[i]].ID # heap[history[j]].ID
            /\ IdLess(heap[history[i]].ID, heap[history[j]].ID)

\* the records a caller holds after get_messages or get_history returned
Held ==
    CASE ret.op = "GetMessages" -> ret.result
      [] ret.op = "GetHistory" -> { ret.result[i] : i \in DOMAIN ret.result }
      [] OTHER -> {}

\* C19: a store operation that follows a get_messages or a get_history
\* changes no field of a record the caller got.
C19_SnapshotsAreStable ==
    [][\A p \in Held : p \in DOMAIN heap' => heap'[p] = heap[p]]_vars

(***************************************************************************)
(* Properties of the store under its lock.                                 *)
(***************************************************************************)
\* C11: while a Clear has emptied some of the four structures and not yet
\* the others, no other goroutine is inside a store method; and when its
\* four assignments are done the table, the membership, the receipt index
\* and the history are empty, and get_queue_stats, get_messages and
\* get_history(0) return empty collections.
C11_ClearIsAtomic ==
    \A d \in Goroutines :
        inside[d].op = "Clear" =>
            /\ inside[d].step \in 1..3 =>
                 \A g \in Goroutines \ {d} : inside[g] = Outside
            /\ inside[d].step = 4 =>
                 /\ messages = EmptyMap
                 /\ queues = EmptyMap
                 /\ history = << >>
                 /\ receipts = EmptyMap
                 /\ GetQueueStats(TheStore) = EmptyMap
                 /\ GetMessages(TheStore, "", TRUE) = {}
                 /\ GetHistory(TheStore, 0) = << >>

\* a Clear half done on a store that held a received message, while an
\* exchange is about to call the store
C11_Witness ==
    \E d \in Dashboards, r \in Requests :
        /\ inside[d].op = "Clear"
        /\ inside[d].step = 2
        /\ messages = EmptyMap
        /\ history # << >>
        /\ receipts # EmptyMap
        /\ conn[r].pc = "dispatch"
        /\ conn[r].todo # << >>

\* the goroutines inside a mutating store method, and inside a query
MutatorsInside == { g \in Goroutines : inside[g].op \in Mutators }
QueriesInside == { g \in Goroutines : inside[g].op \in Queries }

\* C20 as stated: at most one mutating operation is inside the store, no
\* query is inside while a mutating operation is, and no goroutine is inside
\* the store (holding its lock) while the round trip of any request is in
\* progress.
C20_ExclusiveAndNoRoundTrip ==
    /\ Cardinality(MutatorsInside) <= 1
    /\ MutatorsInside # {} => QueriesInside = {}
    /\ (MutatorsInside \cup QueriesInside) # {} =>
         \A r \in Requests : conn[r].pc # "roundtrip"

\* C20: at most one mutating operation is inside the store, no query is
\* inside while a mutating operation is, and an exchange is inside the
\* store only after its own round trip: its response has been received.
C20_ExclusiveAndOwnRoundTrip ==
    /\ Cardinality(MutatorsInside) <= 1
    /\ MutatorsInside # {} => QueriesInside = {}
    /\ \A r \in Requests :
         inside[r] # Outside =>
             /\ conn[r].pc = "dispatch"
             /\ conn[r].produced # None

\* an exchange holds the lock in RecordSend, its body done, while the round
\* trip of the other exchange is in progress
C20_Witness ==
    \E r1, r2 \in Requests :
        /\ inside[r1].op = "RecordSend"
        /\ inside[r1].step = 1
        /\ mu.writer = r1
        /\ conn[r2].pc = "roundtrip"
        /\ conn[r1].produced # None

(***************************************************************************)
(* Further properties of the lifecycle store.                              *)
(***************************************************************************)
\* C21: a record_send, record_receive or record_delete makes the history one
\* longer by putting its event at the end, the earlier events staying the
\* same events at the same places; a query leaves the history as it is; and
\* the history gets shorter only in a clear, which empties it.
C21_HistoryAppendOnly ==
    [][/\ Len(calls') = NumCalls + 1 =>
            /\ Len(history') = Len(history) + 1
            /\ \A i \in 1..Len(history) :
                 /\ history'[i] = history[i]
                 /\ heap'[history'[i]].ID = heap[history[i]].ID
            /\ \A i \in 1..Len(history) : history'[Len(history')] # history[i]
            /\ EventOfCall(heap'[Last(history')], Last(calls'))
       /\ (ret'.op # "none" /\ calls' = calls) => history' = history
       /\ Len(history') < Len(history) =>
            /\ history' = << >>
            /\ calls' = << >>
            /\ messages' = EmptyMap
            /\ queues' = EmptyMap
            /\ receipts' = EmptyMap]_vars

\* a send, a receive and a delete recorded, their events in that order
C21_Witness ==
    /\ Len(history) = 3
    /\ NumCalls = 3
    /\ calls[1].op = ActionSend
    /\ calls[2].op = ActionReceive
    /\ calls[3].op = ActionDelete
    /\ \A i \in 1..3 : heap[history[i]].Action = calls[i].op
    /\ ret.op = "GetHistory"

\* this step is a record_receive of a message id that has an entry
ReceiveOfKnownStep ==
    /\ Len(calls') = NumCalls + 1
    /\ Last(calls').op = ActionReceive
    /\ Last(calls').messageID \in DOMAIN messages

\* C25: record_receive for a message id that already has a current-state
\* entry leaves that entry, every other entry and every queue set as they
\* are; it appends one Receive event to history and maps the receipt handle
\* to the message id in the receipt index, and changes nothing else there.
C25_ReceiveOfKnownKeepsEntry ==
    [][ReceiveOfKnownStep =>
          LET c == Last(calls')
          IN  /\ messages' = messages
              /\ \A m \in DOMAIN messages :
                    heap'[messages'[m]] = heap[messages[m]]
              /\ queues' = queues
              /\ Len(history') = Len(history) + 1
              /\ \A i \in 1..Len(history) : history'[i] = history[i]
              /\ heap'[Last(history')].Action = ActionReceive
              /\ EventOfCall(heap'[Last(history')], c)
              /\ receipts' = MapPut(receipts, c.receiptHandle, c.messageID)]_vars

\* a message sent to one queue and then received through another with a
\* handle: its entry still names the first queue and no handle, the second
\* queue has no set, and the index holds the handle
C25_Witness ==
    /\ NumCalls = 2
    /\ calls[1].op = ActionSend
    /\ calls[2].op = ActionReceive
    /\ calls[2].messageID = calls[1].messageID
    /\ calls[2].queueName # calls[1].queueName
    /\ calls[2].body # calls[1].body
    /\ Entry(calls[1].messageID).QueueName = calls[1].queueName
    /\ Entry(calls[1].messageID).Body = calls[1].body
    /\ Entry(calls[1].messageID).ReceiptHandle = ""
    /\ calls[2].queueName \notin DOMAIN queues
    /\ Len(history) = 2
    /\ calls[2].receiptHandle \in DOMAIN receipts
    /\ receipts[calls[2].receiptHandle] = calls[1].messageID

(***************************************************************************)
(* Further properties of the proxy.                                        *)
(***************************************************************************)
\* the store calls modifyResponse makes for a request and the answer to it
CallsOf(request, response) ==
    Dispatch(request.body, HeaderGet(request.headers, "Content-Type"),
             HeaderGet(request.headers, "X-Amz-Target"), response.body)

\* exchange r has sent the request, got the answer and returned from
\* modifyResponse without an error
Answered(r, request, response) ==
    /\ conn[r].pc = "done"
    /\ conn[r].err = ""
    /\ conn[r].sent = request
    /\ conn[r].produced = response

\* an event without its internal identifier
Anonymous(e) == [e EXCEPT !.ID = << >>]

C23_OwnRequestMetadata ==
    [][\A r \in Requests :
          (conn[r].pc = "modify" /\ conn'[r].pc = "dispatch") =>
              conn'[r].todo = CallsOf(conn[r].sent, conn[r].produced)]_vars

\* two exchanges with different requests past modifyResponse at once, each
\* with its own call to make
C23_Witness ==
    \E r1, r2 \in Requests :
        /\ conn[r1].pc = "dispatch"
        /\ conn[r2].pc = "dispatch"
        /\ conn[r1].sent = J_SendMessage
        /\ conn[r2].sent = F_DeleteMessage
        /\ Len(conn[r1].todo) = 1 /\ conn[r1].todo[1].op = ActionSend
        /\ Len(conn[r2].todo) = 1 /\ conn[r2].todo[1].op = ActionDelete

\* the entries of a batch exchange, in entry order: the message ids of the
\* answer to a SendMessageBatch (an empty <MessageId> element carries none),
\* the receipt handles of a DeleteMessageBatch request
BatchEntries(request, response) ==
    CASE request \in {J_DeleteMessageBatch, F_DeleteMessageBatch} ->
            <<[op |-> ActionDelete, key |-> "rh1"],
              [op |-> ActionDelete, key |-> "rh2"]>>
      [] /\ request \in {J_SendMessageBatch, F_SendMessageBatch}
         /\ response \in {JR_SendMessageBatch, XR_SendMessageBatch} ->
            <<[op |-> ActionSend, key |-> "m1"],
              [op |-> ActionSend, key |-> "m2"]>>
      [] request = J_SendMessageBatch /\ response = JR_SendMessageBatchNoID ->
            <<[op |-> ActionSend, key |-> "m1"],
              [op |-> ActionSend, key |-> ""]>>
      [] request = F_SendMessageBatch /\ response = XR_SendMessageBatchNoID ->
            <<[op |-> ActionSend, key |-> "m1"]>>
      [] OTHER -> << >>

IsBatch(request) ==
    request \in {J_SendMessageBatch, F_SendMessageBatch,
                 J_DeleteMessageBatch, F_DeleteMessageBatch}

\* event e is the one recorded for entry x of a batch on queue q1
EventOfEntry(e, x) ==
    /\ e.Action = x.op
    /\ e.QueueName = "q1"
    /\ (x.op = ActionSend => e.MessageID = x.key /\ e.Body = BatchBody)
    /\ (x.op = ActionDelete => e.ReceiptHandle = x.key)

\* exchange r is past modifyResponse's parsing without an error
Dispatching(r) == conn[r].pc \in {"dispatch", "done"} /\ conn[r].err = ""

\* the store calls exchange r has made so far
Made(r) ==
    IF Dispatching(r)
    THEN Len(CallsOf(conn[r].sent, conn[r].produced)) - Len(conn[r].todo)
    ELSE 0

RECURSIVE TotalMade(_)
TotalMade(S) ==
    IF S = {} THEN 0
    ELSE LET r == CHOOSE x \in S : TRUE IN Made(r) + TotalMade(S \ {r})

\* the first n entries appear in history in entry order, other events
\* possibly between them
InOrder(entries, n) ==
    \E f \in [1..n -> 1..Len(history)] :
        /\ \A i \in 1..n : EventOfEntry(heap[history[f[i]]], entries[i])
        /\ \A i, j \in 1..n : i < j => f[i] < f[j]

IsDelete(request) ==
    request \in {J_DeleteMessage, F_DeleteMessage,
                 J_DeleteMessageBatch, F_DeleteMessageBatch}

\* the receipt handles a delete request names, in request order
DeleteHandles(request) ==
    IF request \in {J_DeleteMessage, F_DeleteMessage} THEN <<"rh1">>
    ELSE IF request \in {J_DeleteMessageBatch, F_DeleteMessageBatch}
    THEN <<"rh1", "rh2">>
    ELSE << >>

\* every answer of the catalogue
AllResponses == UNION { UpstreamResponses(q) : q \in ClientRequests }

\* C27: the store effect of a DeleteMessage or DeleteMessageBatch exchange
\* whose answer modifyResponse has read is fixed by the request: the calls
\* modifyResponse fixes are one record_delete per receipt handle of the
\* request and are the same for every status and body of the answer, and
\* each call changes the store as record_delete does on the store state it
\* finds, appending one Delete event.
C27_DeleteByRequestAlone ==
    [][\A r \in Requests :
          /\ (/\ conn[r].pc = "modify" /\ conn'[r].pc = "dispatch"
              /\ IsDelete(conn[r].sent)) =>
                 LET handles == DeleteHandles(conn[r].sent)
                 IN  /\ \A answer \in AllResponses :
                           conn'[r].todo = CallsOf(conn[r].sent, answer)
                     /\ Len(conn'[r].todo) = Len(handles)
                     /\ \A i \in 1..Len(handles) :
                           /\ conn'[r].todo[i].op = ActionDelete
                           /\ conn'[r].todo[i].queueName = "q1"
                           /\ conn'[r].todo[i].receiptHandle = handles[i]
          /\ (/\ conn[r].pc = "dispatch" /\ conn[r].todo # << >>
              /\ conn'[r].todo = Tail(conn[r].todo)
              /\ IsDelete(conn[r].sent)) =>
                 LET c == Head(conn[r].todo)
                 IN  /\ TheStore' = RecordDelete(TheStore, c.queueURL,
                                        c.queueName, c.receiptHandle, now)
                     /\ Len(history') = Len(history) + 1
                     /\ heap'[Last(history')].Action = ActionDelete
                     /\ heap'[Last(history')].ReceiptHandle = c.receiptHandle]_vars

\* the same delete request answered once with success and once with an
\* error status, both exchanges finished and each recorded as a Delete event
C27_Witness ==
    \E r, o \in Requests :
        /\ Answered(r, J_DeleteMessage, JR_Empty)
        /\ Answered(o, J_DeleteMessage, JR_Error)
        /\ JR_Error.status = 400
        /\ Len(history) = 2
        /\ \A i \in 1..2 :
             /\ heap[history[i]].Action = ActionDelete
             /\ heap[history[i]].ReceiptHandle = "rh1"

(***************************************************************************)
(* The store methods with their waits: a caller is in a method from its    *)
(* call on, blocked in Lock or RLock until Store.mu serves it.  A pending  *)
(* Lock holds back new readers, and Unlock admits the readers it held      *)
(* back, as sync.RWMutex does.                                             *)
(***************************************************************************)
\* positions of a caller that does not hold Store.mu yet
Waiting == -2       \* in s.mu.Lock() or s.mu.RLock(), not yet looked at
Queued == -1        \* a writer the readers drain for, or a reader held back

\* the queue the callers of this specification name
LiveURL == "http://x/q1"

\* the methods a goroutine calls: one exchange carries the sends, the other
\* the receives and deletes; one handler of the dashboard serves the
\* message and history pages, the other the statistics and the clear button
MethodsOf(g) ==
    CASE g = "r1" -> {"RecordSend"}
      [] g = "r2" -> {"RecordReceive", "RecordDelete"}
      [] g = "d1" -> {"GetMessages", "GetHistory"}
      [] g = "d2" -> {"GetQueueStats", "Clear"}

\* a Lock is held or pending
WriterPending ==
    \/ mu.writer # ""
    \/ \E g \in Goroutines : inside[g].op \in Mutators /\ inside[g].step = Queued

\* the readers a pending or held Lock holds back
HeldBack == { g \in Goroutines : inside[g].op \in Queries /\ inside[g].step = Queued }

\* the Record* calls under way that have not called generateID yet
Unnumbered == { g \in Goroutines : inside[g].op \in RecordMethods /\ inside[g].step < 2 }

\* an idMu.Unlock() that is not made
UnlockID_Not(g) == g

\* idMu.Lock() and the deferred idMu.Unlock() of generateID
LockID(g) == g
UnlockID(g) == ""

\* a goroutine calls a store method and reaches its first statement, the
\* Lock or RLock of Store.mu
Invoke(g) ==
    /\ inside[g] = Outside
    /\ \E op \in MethodsOf(g) :
         /\ op \in RecordMethods =>
               idCounter + Cardinality(Unnumbered) < MaxCalls
         /\ inside' = [inside EXCEPT ![g] = [op |-> op, step |-> Waiting]]
    /\ UNCHANGED <<storeVars, now, ret, calls, conn, mu, idMu>>

\* s.mu.Lock(), first half: the caller is the next writer, readers that
\* arrive from now on wait for it
Announce(g) ==
    /\ inside[g].op \in Mutators
    /\ inside[g].step = Waiting
    /\ ~WriterPending
    /\ inside' = [inside EXCEPT ![g].step = Queued]
    /\ UNCHANGED <<storeVars, now, ret, calls, conn, mu, idMu>>

\* s.mu.Lock(), second half: the readers have left
AcquireLock(g) ==
    /\ inside[g].op \in Mutators
    /\ inside[g].step = Queued
    /\ CanLock(mu)
    /\ mu' = Lock(mu, g)
    /\ inside' = [inside EXCEPT ![g].step = 0]
    /\ UNCHANGED <<storeVars, now, ret, calls, conn, idMu>>

\* s.mu.RLock(): taken at once, or the caller is held back by a writer
TryRLock(g) ==
    /\ inside[g].op \in Queries
    /\ inside[g].step = Waiting
    /\ IF CanRLock(mu) /\ ~WriterPending
       THEN /\ mu' = RLock(mu, g)
            /\ inside' = [inside EXCEPT ![g].step = 0]
       ELSE /\ mu' = mu
            /\ inside' = [inside EXCEPT ![g].step = Queued]
    /\ UNCHANGED <<storeVars, now, ret, calls, conn, idMu>>

\* generateID, called under Store.mu: idMu.Lock()
GenerateIDLock(g) ==
    /\ inside[g].op \in RecordMethods
    /\ inside[g].step = 0
    /\ idMu = ""
    /\ idMu' = LockID(g)
    /\ inside' = [inside EXCEPT ![g].step = 1]
    /\ UNCHANGED <<storeVars, now, ret, calls, conn, mu>>

\* generateID's increment and return, which releases idMu, and the rest of
\* the body of the Record* method
NumberedBody(g) ==
    /\ inside[g].op \in RecordMethods
    /\ inside[g].step = 1
    /\ idMu = g
    /\ CASE inside[g].op = "RecordSend" ->
              DoRecordSend(LiveURL, extractQueueName(LiveURL), "m1", SendBody,
                           NoAttrs)
         [] inside[g].op = "RecordReceive" ->
              DoRecordReceive(LiveURL, extractQueueName(LiveURL), "m1", "rh1",
                              ReceiveBody, SomeAttrs)
         [] inside[g].op = "RecordDelete" ->
              DoRecordDelete(LiveURL, extractQueueName(LiveURL), "rh1")
    /\ idMu' = UnlockID(g)
    /\ inside' = [inside EXCEPT ![g].step = 2]
    /\ UNCHANGED <<now, conn, mu>>

\* the body of Clear
ClearBody(g) ==
    /\ inside[g].op = "Clear"
    /\ inside[g].step = 0
    /\ DoClear
    /\ inside' = [inside EXCEPT ![g].step = 2]
    /\ UNCHANGED <<now, conn, mu, idMu>>

\* the deferred s.mu.Unlock() of a Record* method or of Clear; the readers
\* held back hold the lock from here on
Return(g) ==
    /\ inside[g].op \in Mutators
    /\ inside[g].step = 2
    /\ mu' = [Unlock(mu, g) EXCEPT !.readers = HeldBack]
    /\ inside' = [h \in Goroutines |->
                    IF h = g THEN Outside
                    ELSE IF h \in HeldBack THEN [inside[h] EXCEPT !.step = 0]
                    ELSE inside[h]]
    /\ UNCHANGED <<storeVars, now, ret, calls, conn, idMu>>

\* the steps of a caller that wait for no other writer's turn
Proceed(g) ==
    \/ AcquireLock(g)
    \/ TryRLock(g)
    \/ GenerateIDLock(g)
    \/ NumberedBody(g)
    \/ ClearBody(g)
    \/ QueryBody(g)
    \/ LeaveQuery(g)
    \/ Return(g)

LiveNext ==
    \E g \in Goroutines :
        \/ Invoke(g)
        \/ Announce(g)
        \/ Proceed(g)

\* a goroutine that can run does run, and a writer that waits for its turn
\* among the writers gets it
LiveFair ==
    \A g \in Goroutines : WF_vars(Proceed(g)) /\ SF_vars(Announce(g))

LiveSpec == Init /\ [][LiveNext]_vars /\ LiveFair

\* C26: every store method that is called returns, whatever the other
\* callers do; and idMu is only ever held by the goroutine that holds
\* Store.mu for writing, so the two locks nest in one order.
C26_EveryCallReturns ==
    /\ \A g \in Goroutines : (inside[g].op # "none") ~> (inside[g] = Outside)
    /\ [](idMu # "" => (mu.writer = idMu /\ inside[idMu].step = 1))

\* a second Record* call inside generateID under both locks, after the
\* first has returned, with a reader held back and a Clear waiting
C26_Witness ==
    \E g \in Requests, d, c \in Dashboards :
        /\ idMu = g /\ mu.writer = g
        /\ inside[d].op \in Queries /\ inside[d].step = Queued
        /\ inside[c].op = "Clear" /\ inside[c].step = Waiting
        /\ Len(history) >= 1
====
